---------------------------- MODULE Spec2Model ----------------------------
(* Model of the two financial report generators of the repository:         *)
(*   src/Colab_Q_A_fin_re.py          TeslaFinancialReportGenerator        *)
(*   src/financial_report_generator.py FinancialDataScraper,               *)
(*                                     ExcelReportGenerator,               *)
(*                                     FinancialReportAutomation           *)
(* Numbers are floats in the source.  They are modelled as exact fractions *)
(* [n, d] in lowest terms; d = 0 encodes the IEEE specials: 0/0 is NaN     *)
(* (pandas' missing marker), 1/0 and -1/0 are the infinities.              *)
EXTENDS Integers, Sequences, FiniteSets, TLC

VARIABLES
    yf,        \* what the yfinance ticker delivers for each statement table
    tables,    \* TeslaFinancialReportGenerator: self.quarterly_balance_sheet, ...
    data,      \* FinancialReportAutomation.generate_report: the three fetched dicts
    ws,        \* the worksheet: cell address -> cell, defined where written
    ret,       \* what generate_report returned
    pc,        \* position of the run
    current,   \* argument of the percentage change
    previous,  \* argument of the percentage change
    result,    \* value returned by the percentage change
    now,       \* datetime.now().year
    wb         \* scheduled runs: the workbook object each run has created

\* In the specification of scheduled runs (SpecRuns) tables, data, ret, pc and
\* wb hold one value per run, and ws holds the worksheets of all workbook
\* objects created so far, in order of creation.

vars == <<yf, tables, data, ws, ret, pc, current, previous, result, now, wb>>

-----------------------------------------------------------------------------
(* Bounds *)

\* Largest absolute value of the arguments of the percentage change.
MaxVal == 4

-----------------------------------------------------------------------------
(* Float arithmetic *)

NaN == [n |-> 0, d |-> 0]

Num(k) == [n |-> k, d |-> 1]

IsNaN(x) == x.d = 0 /\ x.n = 0

IsFinite(x) == x.d # 0

AbsInt(k) == IF k < 0 THEN -k ELSE k

SignInt(k) == IF k < 0 THEN -1 ELSE IF k > 0 THEN 1 ELSE 0

RECURSIVE GCD(_, _)
GCD(a, b) == IF b = 0 THEN a ELSE GCD(b, a % b)

\* The fraction n/d in lowest terms with a positive denominator; n/0 is an
\* infinity or NaN.
Frac(n, d) ==
    IF d = 0 THEN [n |-> SignInt(n), d |-> 0]
    ELSE LET g == GCD(AbsInt(n), AbsInt(d))
             s == SignInt(d)
         IN [n |-> (s * n) \div g, d |-> (s * d) \div g]

\* x + y (inf + -inf is NaN).
AddNum(x, y) ==
    IF IsFinite(x) /\ IsFinite(y) THEN Frac(x.n * y.d + y.n * x.d, x.d * y.d)
    ELSE IF IsNaN(x) \/ IsNaN(y) THEN NaN
    ELSE IF IsFinite(x) THEN y
    ELSE IF IsFinite(y) THEN x
    ELSE IF x.n = y.n THEN x ELSE NaN

NegNum(x) == [n |-> -x.n, d |-> x.d]

SubNum(x, y) == AddNum(x, NegNum(y))

AbsNum(x) == [n |-> AbsInt(x.n), d |-> x.d]

\* x / y as numpy divides floats: a finite x over 0 is an infinity, 0/0 is NaN.
DivNum(x, y) ==
    IF IsNaN(x) \/ IsNaN(y) THEN NaN
    ELSE IF IsFinite(x) /\ IsFinite(y) THEN Frac(x.n * y.d, x.d * y.n)
    ELSE IF IsFinite(x) THEN Num(0)
    ELSE IF IsFinite(y) THEN [n |-> x.n * (IF y.n < 0 THEN -1 ELSE 1), d |-> 0]
    ELSE NaN

\* Python's x == 0: false for NaN and the infinities.
EqZero(x) == x.d # 0 /\ x.n = 0

\* Python's x < k for an integer k: false for NaN.
LtInt(x, k) ==
    IF IsNaN(x) THEN FALSE
    ELSE IF x.d = 0 THEN x.n < 0
    ELSE x.n < k * x.d

\* Python's x != 0: true for NaN.
NeZero(x) == ~EqZero(x)

\* round-half-to-even of a finite fraction to an integer.
RoundHalfEven(x) ==
    LET a == AbsInt(x.n)
        q == a \div x.d
        r == a % x.d
        up == IF 2 * r > x.d THEN 1
              ELSE IF 2 * r < x.d THEN 0
              ELSE q % 2
    IN SignInt(x.n) * (q + up)

\* round(x, 2): NaN and the infinities round to themselves.
Round2(x) ==
    IF ~IsFinite(x) THEN x
    ELSE Frac(RoundHalfEven(Frac(100 * x.n, x.d)), 100)

-----------------------------------------------------------------------------
(* Strings built by the formatters: sequences of characters, joined *)

RECURSIVE Join(_)
Join(s) == IF s = <<>> THEN "" ELSE Head(s) \o Join(Tail(s))

DigitChar(k) == <<"0", "1", "2", "3", "4", "5", "6", "7", "8", "9">>[k + 1]

RECURSIVE Digits(_)
Digits(k) == IF k < 10 THEN <<DigitChar(k)>>
             ELSE Digits(k \div 10) \o <<DigitChar(k % 10)>>

Pad3(k) == <<DigitChar(k \div 100), DigitChar((k \div 10) % 10), DigitChar(k % 10)>>

\* The ',' thousands separator of the format specification ",.0f".
RECURSIVE Grouped(_)
Grouped(k) == IF k < 1000 THEN Digits(k)
              ELSE Grouped(k \div 1000) \o <<",">> \o Pad3(k % 1000)

\* f"{x:,.0f}" for x >= 0 (the sign is added by the callers).
FixedChars(x) ==
    IF IsNaN(x) THEN <<"n", "a", "n">>
    ELSE IF ~IsFinite(x) THEN <<"i", "n", "f">>
    ELSE Grouped(AbsInt(RoundHalfEven(x)))

-----------------------------------------------------------------------------
(* Delta engine *)

\* A plausible slip: the denominator without abs().
Mutant_pct_no_abs(cur, prev) ==
    IF EqZero(prev) THEN Num(0) ELSE DivNum(SubNum(cur, prev), prev)

\* TeslaFinancialReportGenerator._calculate_pct_change
_calculate_pct_change(cur, prev) ==
    IF EqZero(prev) THEN Num(0)
    ELSE DivNum(SubNum(cur, prev), AbsNum(prev))

\* The same slip in the other generator.
Mutant_percentage_no_abs(cur, prev) ==
    IF EqZero(prev) THEN Num(0) ELSE DivNum(SubNum(cur, prev), prev)

\* ExcelReportGenerator.calculate_percentage_change
calculate_percentage_change(cur, prev) ==
    IF EqZero(prev) THEN Num(0)
    ELSE DivNum(SubNum(cur, prev), AbsNum(prev))

-----------------------------------------------------------------------------
(* Specification of the percentage change as a pure function *)

\* The arguments tried: missing, every integer up to MaxVal in magnitude, and
\* the 42 of the specification's scenario D.
PctVal == {NaN} \cup {Num(k) : k \in -MaxVal..MaxVal} \cup {Num(42)}

NoReport ==
    /\ yf = <<>>
    /\ tables = <<>>
    /\ data = <<>>
    /\ ws = <<>>
    /\ ret = "none"
    /\ now = 2025
    /\ wb = <<>>

InitPct ==
    /\ NoReport
    /\ pc = "start"
    /\ current \in PctVal
    /\ previous \in PctVal
    /\ result = NaN

Call_calculate_pct_change ==
    /\ pc = "start"
    /\ result' = _calculate_pct_change(current, previous)
    /\ pc' = "tesla_pct"
    /\ UNCHANGED <<yf, tables, data, ws, ret, current, previous, now, wb>>

Call_calculate_percentage_change ==
    /\ pc = "start"
    /\ result' = calculate_percentage_change(current, previous)
    /\ pc' = "excel_pct"
    /\ UNCHANGED <<yf, tables, data, ws, ret, current, previous, now, wb>>

NextPct == Call_calculate_pct_change \/ Call_calculate_percentage_change

SpecPct == InitPct /\ [][NextPct]_vars

PctReturned == pc \in {"tesla_pct", "excel_pct"}

PresentPct(x) == IsFinite(x)

\* C1 (as stated): the percentage change returns the missing marker if and
\* only if at least one of current and previous is missing.
C1_MissingIffInputMissing ==
    PctReturned => (IsNaN(result) <=> (IsNaN(current) \/ IsNaN(previous)))

\* C2: for present inputs the percentage change is exactly 0 when previous
\* is 0 and otherwise (current - previous) / abs(previous).
C2_PctValue ==
    (PctReturned /\ PresentPct(current) /\ PresentPct(previous)) =>
        IF previous.n = 0
        THEN result = Num(0)
        ELSE /\ result.d > 0
             /\ result.n * AbsInt(previous.n) * current.d
                  = (current.n * previous.d - previous.n * current.d) * result.d

\* Scenario D has been computed: previous = 0, current = 42 gave 0.
C2_Witness ==
    /\ pc = "tesla_pct"
    /\ previous = Num(0)
    /\ current = Num(42)
    /\ result = Num(0)

-----------------------------------------------------------------------------
(* Statement store: the tables the yfinance ticker delivers *)

\* The ticker's six properties (quarterly_income_stmt and income_stmt are
\* stored as self.quarterly_income and self.annual_income).
TableNames == {"quarterly_balance_sheet", "quarterly_income_stmt",
               "quarterly_cash_flow", "balance_sheet", "income_stmt",
               "cash_flow"}

\* Number of periods the report shows: the [:3] of every resolution.
NumPeriods == 3

\* Largest number of periods (columns) of a table.
MaxPeriods == 4

\* Largest absolute value of a varied table entry.
MaxTableVal == 1

\* A property that is None, a property whose read raises, a DataFrame with
\* `columns` periods (most recent first) and one row per line item.
None == [kind |-> "None"]

Raises == [kind |-> "raises"]

DataFrame(n, r) == [kind |-> "DataFrame", columns |-> n, rows |-> r]

IsNone(t) == t.kind = "None"

\* dataframe.index
Index(df) == DOMAIN df.rows

KindOf(name) ==
    IF name \in {"quarterly_balance_sheet", "balance_sheet"} THEN "balance_sheet"
    ELSE IF name \in {"quarterly_income_stmt", "income_stmt"} THEN "income_stmt"
    ELSE "cash_flow"

\* The line items either generator looks up, by statement kind.
BalanceSheetKeys ==
    {"Cash And Cash Equivalents", "Other Short Term Investments",
     "Accounts Receivable", "Inventory", "Current Assets", "Total Assets",
     "Short Term Debt", "Accounts Payable", "Other Current Liabilities",
     "Current Liabilities", "Long Term Debt",
     "Total Liabilities Net Minority Interest", "Total Stockholder Equity",
     "Total Current Assets", "Total Current Liabilities",
     "Property Plant Equipment Net", "Total Liabilities"}

IncomeKeys ==
    {"Total Revenue", "Cost Of Revenue", "Gross Profit", "Operating Expense",
     "Operating Income", "EBITDA", "EBIT", "Pretax Income", "Tax Provision",
     "Net Income", "Basic EPS", "Diluted EPS", "Basic Average Shares",
     "Diluted Average Shares", "Total Expenses", "Interest Expense"}

CashFlowKeys ==
    {"Net Income", "Depreciation And Amortization", "Stock Based Compensation",
     "Change In Working Capital", "Other Non Cash Items", "Operating Cash Flow",
     "Capital Expenditure", "Net Business Purchase And Sale",
     "Net Investment Purchase And Sale", "Net Other Investing Changes",
     "Investing Cash Flow", "Net Issuance Payments Of Debt",
     "Net Common Stock Issuance", "Cash Dividends Paid",
     "Net Other Financing Charges", "Financing Cash Flow", "Depreciation",
     "Repayment Of Debt", "Free Cash Flow"}

Keys(kind) ==
    IF kind = "balance_sheet" THEN BalanceSheetKeys
    ELSE IF kind = "income_stmt" THEN IncomeKeys
    ELSE CashFlowKeys

\* The line items the derived metrics read: the inputs vary these.
FocusKeys(kind) ==
    IF kind = "balance_sheet"
    THEN {"Total Current Assets", "Total Current Liabilities", "Inventory",
          "Current Assets", "Current Liabilities"}
    ELSE IF kind = "income_stmt" THEN {"Total Revenue", "Gross Profit"}
    ELSE {"Operating Cash Flow", "Investing Cash Flow", "Financing Cash Flow"}

TableVal == {NaN} \cup {Num(k) : k \in -MaxTableVal..MaxTableVal}

\* A row of n periods that declines into the past: n, ..., 2, 1.
BaseRow(n) == [p \in 1..n |-> Num(n + 1 - p)]

\* A complete table of n periods.
BaseTable(kind, n) == DataFrame(n, [k \in Keys(kind) |-> BaseRow(n)])

\* Tables of 0..MaxPeriods periods in which any of the focus items is absent.
ShapeTables(kind) ==
    {DataFrame(n, [k \in Keys(kind) \ absent |-> BaseRow(n)]) :
        n \in 0..MaxPeriods, absent \in SUBSET FocusKeys(kind)}

Alternating(a, b) == <<a, b, a>>

Constant(a) == <<a, a, a>>

\* The rows of a table of three periods whose focus items take the values
\* a, b and c: one item alternates between a and b, so that its adjacent
\* periods take every pair of values, and with the other two it takes every
\* triple of values in the most recent period.
ValueRows(kind, a, b, c) ==
    IF kind = "balance_sheet"
    THEN [k \in Keys(kind) |->
            IF k = "Total Current Assets" THEN Alternating(a, b)
            ELSE IF k = "Total Current Liabilities" THEN Constant(c)
            ELSE IF k = "Inventory" THEN Constant(b)
            ELSE BaseRow(NumPeriods)]
    ELSE IF kind = "income_stmt"
    THEN [k \in Keys(kind) |->
            IF k = "Gross Profit" THEN Alternating(a, b)
            ELSE IF k = "Total Revenue" THEN Alternating(c, b)
            ELSE BaseRow(NumPeriods)]
    ELSE [k \in Keys(kind) |->
            IF k = "Operating Cash Flow" THEN Alternating(a, b)
            ELSE IF k = "Investing Cash Flow" THEN Constant(c)
            ELSE IF k = "Financing Cash Flow" THEN Constant(b)
            ELSE BaseRow(NumPeriods)]

\* The focus item that the value tables also try absent.
OptionalKey(kind) ==
    IF kind = "balance_sheet" THEN "Inventory"
    ELSE IF kind = "income_stmt" THEN "Gross Profit"
    ELSE "Financing Cash Flow"

Restrict(f, S) == [x \in S |-> f[x]]

ValueTables(kind) ==
    {DataFrame(NumPeriods,
               Restrict(ValueRows(kind, a, b, c),
                        IF drop THEN Keys(kind) \ {OptionalKey(kind)} ELSE Keys(kind))) :
        a \in TableVal, b \in TableVal, c \in TableVal, drop \in BOOLEAN}

Nums(a, b, c) == <<Num(a), Num(b), Num(c)>>

\* Tables of three periods with the figures of worked examples: current
\* assets [100, 90, 80] against current liabilities [50, 45, 40]; rows whose
\* adjacent periods change by exactly 10, -10 and 9.9999; revenue
\* [0, 100, 100] against gross profit [0, 40, 50].
ScenarioRows(kind) ==
    IF kind = "balance_sheet"
    THEN [k \in Keys(kind) |->
            IF k \in {"Total Current Assets", "Current Assets"} THEN Nums(100, 90, 80)
            ELSE IF k \in {"Total Current Liabilities", "Current Liabilities"}
            THEN Nums(50, 45, 40)
            ELSE IF k = "Accounts Payable" THEN Nums(11, 1, 1)
            ELSE IF k = "Short Term Debt" THEN Nums(-9, 1, 1)
            ELSE IF k = "Long Term Debt" THEN Nums(109999, 10000, 10000)
            ELSE BaseRow(NumPeriods)]
    ELSE IF kind = "income_stmt"
    THEN [k \in Keys(kind) |->
            IF k = "Total Revenue" THEN Nums(0, 100, 100)
            ELSE IF k = "Gross Profit" THEN Nums(0, 40, 50)
            ELSE BaseRow(NumPeriods)]
    ELSE [k \in Keys(kind) |->
            IF k = "Operating Cash Flow" THEN Nums(11, 1, 1)
            ELSE BaseRow(NumPeriods)]

ScenarioTables(kind) == {DataFrame(NumPeriods, ScenarioRows(kind))}

\* Every table complete, with three periods.
BaseYf == [t \in TableNames |-> BaseTable(KindOf(t), NumPeriods)]

\* Each property among `names` is None, raises, or delivers the complete
\* table; the others deliver the complete table.
Availability(names) ==
    {[t \in TableNames |-> IF t \notin names THEN BaseYf[t]
                           ELSE IF how[t] = "None" THEN None
                           ELSE IF how[t] = "raises" THEN Raises
                           ELSE BaseYf[t]] :
        how \in [names -> {"None", "raises", "DataFrame"}]}

\* One table among `names` deviates from the complete one: in shape, in
\* values, or with the figures of the worked examples.
Deviations(names) ==
    UNION {{[BaseYf EXCEPT ![t] = x] :
               x \in ShapeTables(KindOf(t)) \cup ValueTables(KindOf(t))
                       \cup ScenarioTables(KindOf(t))} :
           t \in names}

\* The inputs of a run: what the ticker delivers.
YfInputs == Availability(TableNames) \cup Deviations(TableNames)

-----------------------------------------------------------------------------
(* The worksheet *)

\* A cell value is a Python string or a number.
Str(s) == [str |-> s]

Number(x) == [num |-> x]

IsStr(v) == "str" \in DOMAIN v

IsNumber(v) == "num" \in DOMAIN v

Written(w, col, row) == <<col, row>> \in DOMAIN w

\* ws[f'{col}{row}'] = v: the cell is created with the General format, or
\* keeps the format it has.  `writes` counts the assignments to the cell.
SetValue(w, col, row, v) ==
    LET a == <<col, row>>
        fmt == IF a \in DOMAIN w THEN w[a].number_format ELSE "General"
        n == IF a \in DOMAIN w THEN w[a].writes + 1 ELSE 1
    IN (a :> [value |-> v, number_format |-> fmt, writes |-> n]) @@ w

\* ws[f'{col}{row}'].number_format = fmt, on a cell that has been assigned.
SetFormat(w, col, row, fmt) ==
    [w EXCEPT ![<<col, row>>].number_format = fmt]

\* The worksheet w after the writes that produced `patch` on an empty
\* worksheet: a cell written again takes the new value, keeps its number
\* format unless the writes set one, and has been written that much more often.
Over(patch, w) ==
    [a \in DOMAIN patch |->
        IF a \in DOMAIN w
        THEN [patch[a] EXCEPT
                 !.number_format = IF @ = "General" THEN w[a].number_format ELSE @,
                 !.writes = @ + w[a].writes]
        ELSE patch[a]] @@ w

\* The empty worksheet.
Blank == <<>>

\* column.strftime('%m/%d/%Y') of the p-th most recent period.
ColumnDate(p) == "date" \o DigitChar(p)

\* f"FY {year}"
FiscalYear(year) == "FY " \o Join(Digits(year))

\* A plausible slip: the window of three periods starts one period late
\* when there are more than three.
Mutant_Take3(row) ==
    IF Len(row) > NumPeriods THEN SubSeq(row, 2, NumPeriods + 1) ELSE row

\* values[:3]
Take3(row) == SubSeq(row, 1, IF Len(row) < NumPeriods THEN Len(row) ELSE NumPeriods)

MinInt(a, b) == IF a < b THEN a ELSE b

-----------------------------------------------------------------------------
(* TeslaFinancialReportGenerator: formatting and row placement *)

\* TeslaFinancialReportGenerator._format_currency, as characters
_format_currency_chars(value) ==
    IF IsNaN(value) \/ EqZero(value) THEN <<"$", "0">>
    ELSE IF LtInt(value, 0) THEN <<"$", "(">> \o FixedChars(AbsNum(value)) \o <<")">>
    ELSE <<"$">> \o FixedChars(value)

\* TeslaFinancialReportGenerator._format_currency
_format_currency(value) == Join(_format_currency_chars(value))

\* '0.00%' if abs(pct_change) < 10 else '0.0'
DeltaFormat(pct_change) ==
    IF LtInt(AbsNum(pct_change), 10) THEN "0.00%" ELSE "0.0"

\* The delta cell of a row: the value and its number format.
SetDelta(w, col, row, pct_change) ==
    SetFormat(SetValue(w, col, row, Number(pct_change)), col, row,
              DeltaFormat(pct_change))

\* TeslaFinancialReportGenerator._add_quarterly_data.  values[k] of a
\* table with fewer than k+1 periods raises IndexError, which the handler
\* catches: the cells written before it stay.
_add_quarterly_data(w, row, dataframe, field_name, col1, col2, col3, col4, col5, col6) ==
    IF IsNone(dataframe) \/ field_name \notin Index(dataframe) THEN w
    ELSE LET values == Take3(dataframe.rows[field_name])
             w1 == SetValue(w, col1, row, Str(_format_currency(values[1])))
             w2 == SetValue(w1, col3, row, Str(_format_currency(values[2])))
             w3 == SetValue(w2, col5, row, Str(_format_currency(values[3])))
             w4 == IF Len(values) >= 2
                   THEN SetDelta(w3, col2, row, _calculate_pct_change(values[1], values[2]))
                   ELSE w3
             w5 == IF Len(values) >= 3
                   THEN SetDelta(w4, col4, row, _calculate_pct_change(values[2], values[3]))
                   ELSE w4
         IN IF Len(values) = 0 THEN w
            ELSE IF Len(values) = 1 THEN w1
            ELSE IF Len(values) = 2 THEN w2
            ELSE w5

\* TeslaFinancialReportGenerator._add_annual_data
_add_annual_data(w, row, dataframe, field_name, col1, col2, col3, col4, col5) ==
    IF IsNone(dataframe) \/ field_name \notin Index(dataframe) THEN w
    ELSE LET values == Take3(dataframe.rows[field_name])
             w1 == SetValue(w, col1, row, Str(_format_currency(values[1])))
             w2 == SetValue(w1, col3, row, Str(_format_currency(values[2])))
             w3 == SetValue(w2, col5, row, Str(_format_currency(values[3])))
             w4 == IF Len(values) >= 2
                   THEN SetDelta(w3, col2, row, _calculate_pct_change(values[1], values[2]))
                   ELSE w3
             w5 == IF Len(values) >= 3
                   THEN SetDelta(w4, col4, row, _calculate_pct_change(values[2], values[3]))
                   ELSE w4
         IN IF Len(values) = 0 THEN w
            ELSE IF Len(values) = 1 THEN w1
            ELSE IF Len(values) = 2 THEN w2
            ELSE w5

\* A plausible slip: one guard for both placements, so that a row without
\* quarterly data gets no annual data either.
Mutant_AddBoth(w, row, quarterly, annual, field_name) ==
    IF IsNone(quarterly) \/ field_name \notin Index(quarterly) THEN w
    ELSE _add_annual_data(
             _add_quarterly_data(w, row, quarterly, field_name,
                                 "E", "F", "G", "H", "I", "J"),
             row, annual, field_name, "K", "L", "M", "N", "O")

\* The quarterly and the annual placement of one catalogued row.
AddBoth(w, row, quarterly, annual, field_name) ==
    _add_annual_data(
        _add_quarterly_data(w, row, quarterly, field_name, "E", "F", "G", "H", "I", "J"),
        row, annual, field_name, "K", "L", "M", "N", "O")

-----------------------------------------------------------------------------
(* TeslaFinancialReportGenerator: derived metrics *)

QuarterlyCols == <<"E", "G", "I">>

QuarterlyPctCols == <<"F", "H">>

AnnualCols == <<"K", "M", "O">>

AnnualPctCols == <<"L", "N">>

\* [0, 0, 0]
Zeros == <<Num(0), Num(0), Num(0)>>

\* dataframe.loc[key].values[:3] if key in dataframe.index else [0, 0, 0]
RowOrZeros(df, key) == IF key \in Index(df) THEN Take3(df.rows[key]) ELSE Zeros

\* _calculate_working_capital, the call on line 454 (and 476): the slot's
\* working capital is passed as current, the more recent slot's as previous.
WorkingCapitalDelta(working_capital, prev_wc) ==
    _calculate_pct_change(working_capital, prev_wc)

\* A plausible slip: the liabilities added instead of subtracted.
Mutant_WorkingCapitalValue(ca, cl) == AddNum(ca, cl)

\* _calculate_working_capital, line 447 (and 469): working_capital = ca - cl
WorkingCapitalValue(ca, cl) == SubNum(ca, cl)

\* The loop of _calculate_working_capital over zip(current_assets,
\* current_liabilities), from slot i on.
RECURSIVE WorkingCapitalLoop(_, _, _, _, _, _, _)
WorkingCapitalLoop(w, row, current_assets, current_liabilities, i, cols, pct_cols) ==
    IF i > MinInt(Len(current_assets), Len(current_liabilities)) THEN w
    ELSE LET working_capital ==
                 WorkingCapitalValue(current_assets[i], current_liabilities[i])
             w1 == SetValue(w, cols[i], row, Str(_format_currency(working_capital)))
             w2 == IF i > 1
                   THEN LET prev_wc == WorkingCapitalValue(current_assets[i - 1],
                                                            current_liabilities[i - 1])
                        IN SetDelta(w1, pct_cols[i - 1], row,
                                    WorkingCapitalDelta(working_capital, prev_wc))
                   ELSE w1
         IN WorkingCapitalLoop(w2, row, current_assets, current_liabilities,
                               i + 1, cols, pct_cols)

\* One granularity of _calculate_working_capital: .loc of an absent key
\* raises KeyError, caught before anything is written.
WorkingCapitalPart(w, row, df, cols, pct_cols) ==
    IF IsNone(df) THEN w
    ELSE IF "Total Current Assets" \notin Index(df) THEN w
    ELSE IF "Total Current Liabilities" \notin Index(df) THEN w
    ELSE WorkingCapitalLoop(w, row, Take3(df.rows["Total Current Assets"]),
                            Take3(df.rows["Total Current Liabilities"]),
                            1, cols, pct_cols)

\* TeslaFinancialReportGenerator._calculate_working_capital
_calculate_working_capital(w, row, self) ==
    WorkingCapitalPart(
        WorkingCapitalPart(w, row, self.quarterly_balance_sheet,
                           QuarterlyCols, QuarterlyPctCols),
        row, self.annual_balance_sheet, AnnualCols, AnnualPctCols)

\* The loop shared by the two ratios: (numerator[i] - less[i]) / cl[i],
\* written only if cl != 0.
RECURSIVE RatioLoop(_, _, _, _, _, _, _)
RatioLoop(w, row, numerator, less, current_liabilities, i, cols) ==
    IF i > MinInt(MinInt(Len(numerator), Len(less)), Len(current_liabilities)) THEN w
    ELSE LET cl == current_liabilities[i]
             ratio == DivNum(SubNum(numerator[i], less[i]), cl)
             w1 == IF NeZero(cl)
                   THEN SetValue(w, cols[i], row, Number(Round2(ratio)))
                   ELSE w
         IN RatioLoop(w1, row, numerator, less, current_liabilities, i + 1, cols)

\* One granularity of _calculate_current_ratio.
CurrentRatioPart(w, row, df, cols) ==
    IF IsNone(df) THEN w
    ELSE IF "Total Current Assets" \notin Index(df) THEN w
    ELSE IF "Total Current Liabilities" \notin Index(df) THEN w
    ELSE RatioLoop(w, row, Take3(df.rows["Total Current Assets"]), Zeros,
                   Take3(df.rows["Total Current Liabilities"]), 1, cols)

\* TeslaFinancialReportGenerator._calculate_current_ratio
_calculate_current_ratio(w, row, self) ==
    CurrentRatioPart(
        CurrentRatioPart(w, row, self.quarterly_balance_sheet, QuarterlyCols),
        row, self.annual_balance_sheet, AnnualCols)

\* A plausible slip: no Quick Ratio without an Inventory line item.
Mutant_QuickRatioPart(w, row, df, cols) ==
    IF IsNone(df) THEN w
    ELSE IF "Total Current Assets" \notin Index(df) THEN w
    ELSE IF "Total Current Liabilities" \notin Index(df) THEN w
    ELSE IF "Inventory" \notin Index(df) THEN w
    ELSE RatioLoop(w, row, Take3(df.rows["Total Current Assets"]),
                   Take3(df.rows["Inventory"]),
                   Take3(df.rows["Total Current Liabilities"]), 1, cols)

\* One granularity of _calculate_quick_ratio.
QuickRatioPart(w, row, df, cols) ==
    IF IsNone(df) THEN w
    ELSE IF "Total Current Assets" \notin Index(df) THEN w
    ELSE IF "Total Current Liabilities" \notin Index(df) THEN w
    ELSE RatioLoop(w, row, Take3(df.rows["Total Current Assets"]),
                   RowOrZeros(df, "Inventory"),
                   Take3(df.rows["Total Current Liabilities"]), 1, cols)

\* TeslaFinancialReportGenerator._calculate_quick_ratio
_calculate_quick_ratio(w, row, self) ==
    QuickRatioPart(
        QuickRatioPart(w, row, self.quarterly_balance_sheet, QuarterlyCols),
        row, self.annual_balance_sheet, AnnualCols)

\* A plausible slip: the quotient the other way round.
Mutant_GrossMarginValue(gp, rev) == DivNum(rev, gp)

\* _calculate_gross_margin, line 557 (and 573): margin = gp / rev
GrossMarginValue(gp, rev) == DivNum(gp, rev)

RECURSIVE GrossMarginLoop(_, _, _, _, _, _)
GrossMarginLoop(w, row, revenue, gross_profit, i, cols) ==
    IF i > MinInt(Len(revenue), Len(gross_profit)) THEN w
    ELSE LET rev == revenue[i]
             margin == GrossMarginValue(gross_profit[i], rev)
             w1 == IF NeZero(rev)
                   THEN SetFormat(SetValue(w, cols[i], row, Number(margin)),
                                  cols[i], row, "0.0%")
                   ELSE w
         IN GrossMarginLoop(w1, row, revenue, gross_profit, i + 1, cols)

\* One granularity of _calculate_gross_margin.
GrossMarginPart(w, row, df, cols) ==
    IF IsNone(df) THEN w
    ELSE IF "Total Revenue" \notin Index(df) THEN w
    ELSE IF "Gross Profit" \notin Index(df) THEN w
    ELSE GrossMarginLoop(w, row, Take3(df.rows["Total Revenue"]),
                         Take3(df.rows["Gross Profit"]), 1, cols)

\* TeslaFinancialReportGenerator._calculate_gross_margin
_calculate_gross_margin(w, row, self) ==
    GrossMarginPart(
        GrossMarginPart(w, row, self.quarterly_income, QuarterlyCols),
        row, self.annual_income, AnnualCols)

\* _calculate_net_cash_flow, line 590 (and 605): net_cash = op + inv + fin
NetCashValue(op, inv, fin) == AddNum(AddNum(op, inv), fin)

RECURSIVE NetCashFlowLoop(_, _, _, _, _, _, _)
NetCashFlowLoop(w, row, operating, investing, financing, i, cols) ==
    IF i > MinInt(MinInt(Len(operating), Len(investing)), Len(financing)) THEN w
    ELSE LET net_cash == NetCashValue(operating[i], investing[i], financing[i])
         IN NetCashFlowLoop(
                SetValue(w, cols[i], row, Str(_format_currency(net_cash))),
                row, operating, investing, financing, i + 1, cols)

\* A plausible slip: the components read with .loc without the `in index`
\* test, so that an absent one raises KeyError and nothing is written.
Mutant_NetCashFlowPart(w, row, df, cols) ==
    IF IsNone(df) THEN w
    ELSE IF ~({"Operating Cash Flow", "Investing Cash Flow",
               "Financing Cash Flow"} \subseteq Index(df)) THEN w
    ELSE NetCashFlowLoop(w, row, Take3(df.rows["Operating Cash Flow"]),
                         Take3(df.rows["Investing Cash Flow"]),
                         Take3(df.rows["Financing Cash Flow"]), 1, cols)

\* One granularity of _calculate_net_cash_flow.
NetCashFlowPart(w, row, df, cols) ==
    IF IsNone(df) THEN w
    ELSE NetCashFlowLoop(w, row, RowOrZeros(df, "Operating Cash Flow"),
                         RowOrZeros(df, "Investing Cash Flow"),
                         RowOrZeros(df, "Financing Cash Flow"), 1, cols)

\* TeslaFinancialReportGenerator._calculate_net_cash_flow
_calculate_net_cash_flow(w, row, self) ==
    NetCashFlowPart(
        NetCashFlowPart(w, row, self.quarterly_cashflow, QuarterlyCols),
        row, self.annual_cashflow, AnnualCols)

-----------------------------------------------------------------------------
(* TeslaFinancialReportGenerator: the layout *)

\* The field name of a calculated row (None in the source).
NoField == ""

balance_sheet_items ==
    <<<<"Cash and Equivalents", "Cash And Cash Equivalents">>,
      <<"Short-Term Investments", "Other Short Term Investments">>,
      <<"Accounts Receivable", "Accounts Receivable">>,
      <<"Inventories", "Inventory">>,
      <<"Current Assets", "Current Assets">>,
      <<"Total Assets", "Total Assets">>,
      <<"Working Capital", NoField>>>>

liability_items ==
    <<<<"Short-Term Debt", "Short Term Debt">>,
      <<"Accounts Payable", "Accounts Payable">>,
      <<"Other Current Liabilities", "Other Current Liabilities">>,
      <<"Current Liabilities", "Current Liabilities">>,
      <<"Long-Term Debt", "Long Term Debt">>,
      <<"Total Liabilities", "Total Liabilities Net Minority Interest">>,
      <<"Net Worth (OE)", "Total Stockholder Equity">>>>

income_items ==
    <<<<"Total Revenue", "Total Revenue">>,
      <<"Cost of Revenue", "Cost Of Revenue">>,
      <<"Gross Profit", "Gross Profit">>,
      <<"Operating Expenses", "Operating Expense">>,
      <<"Operating Income", "Operating Income">>,
      <<"EBITDA", "EBITDA">>,
      <<"EBIT", "EBIT">>,
      <<"Pretax Income", "Pretax Income">>,
      <<"Tax Provision", "Tax Provision">>,
      <<"Net Income", "Net Income">>,
      <<"Basic EPS", "Basic EPS">>,
      <<"Diluted EPS", "Diluted EPS">>,
      <<"Basic Average Shares", "Basic Average Shares">>,
      <<"Diluted Average Shares", "Diluted Average Shares">>,
      <<"Total Operating Expenses", "Total Expenses">>,
      <<"Interest Expense", "Interest Expense">>,
      <<"Gross Margin", NoField>>>>

operating_items ==
    <<<<"Net Income", "Net Income">>,
      <<"Depreciation & Amortization", "Depreciation And Amortization">>,
      <<"Stock Based Compensation", "Stock Based Compensation">>,
      <<"Change in Working Capital", "Change In Working Capital">>,
      <<"Other Operating Activities", "Other Non Cash Items">>>>

investing_items ==
    <<<<"Capital Expenditures", "Capital Expenditure">>,
      <<"Acquisitions", "Net Business Purchase And Sale">>,
      <<"Investments", "Net Investment Purchase And Sale">>,
      <<"Other Investing Activities", "Net Other Investing Changes">>>>

financing_items ==
    <<<<"Debt Issuance/Retirement", "Net Issuance Payments Of Debt">>,
      <<"Stock Issuance/Buyback", "Net Common Stock Issuance">>,
      <<"Dividends Paid", "Cash Dividends Paid">>,
      <<"Other Financing Activities", "Net Other Financing Charges">>>>

\* The layout is modelled as the sequence of its row writes, in program
\* order: each element (a patch) holds the cells one step writes, and the
\* worksheet is the patches laid over one another, later over earlier.

\* Patches lo..hi of a sequence laid over one another.
RECURSIVE Overlay(_, _, _)
Overlay(patches, lo, hi) ==
    IF lo > hi THEN Blank
    ELSE IF lo = hi THEN patches[lo]
    ELSE LET mid == (lo + hi) \div 2
         IN Over(Overlay(patches, mid + 1, hi), Overlay(patches, lo, mid))

\* The worksheet after all writes of a sequence of patches.
Worksheet(patches) == Overlay(patches, 1, Len(patches))

\* ws[f'{col}{row}'] = text, as a patch.
Label(col, row, text) == SetValue(Blank, col, row, Str(text))

\* The body of the loops `for item_name, field_name in items` whose body is
\* the label and, `if field_name:`, the two placements.
ItemRow(item, row, quarterly, annual) ==
    LET item_name == item[1]
        field_name == item[2]
        w1 == Label("C", row, item_name)
    IN IF field_name # NoField
       THEN AddBoth(w1, row, quarterly, annual, field_name)
       ELSE w1

\* for item_name, field_name in items: ...; row += 1
AddItems(items, start_row, quarterly, annual) ==
    [i \in 1..Len(items) |-> ItemRow(items[i], start_row + i - 1, quarterly, annual)]

\* The body of the first loop of _add_balance_sheet_items, with its
\* calculated row.
BalanceSheetRow(item, row, self) ==
    LET item_name == item[1]
        field_name == item[2]
        w1 == Label("C", row, item_name)
    IN IF field_name # NoField /\ field_name # "Working Capital"
       THEN AddBoth(w1, row, self.quarterly_balance_sheet,
                    self.annual_balance_sheet, field_name)
       ELSE IF item_name = "Working Capital"
       THEN _calculate_working_capital(w1, row, self)
       ELSE w1

\* TeslaFinancialReportGenerator._add_balance_sheet_items
_add_balance_sheet_items(start_row, self) ==
    LET liabilities_row == start_row + Len(balance_sheet_items) + 1
        ratio_row == liabilities_row + 1 + Len(liability_items) + 1
    IN [i \in 1..Len(balance_sheet_items) |->
           BalanceSheetRow(balance_sheet_items[i], start_row + i - 1, self)]
       \o <<Label("B", liabilities_row, "Liabilities:")>>
       \o AddItems(liability_items, liabilities_row + 1,
                   self.quarterly_balance_sheet, self.annual_balance_sheet)
       \o <<_calculate_current_ratio(Label("A", ratio_row, "Current Ratio"),
                                     ratio_row, self),
            _calculate_quick_ratio(Label("A", ratio_row + 1, "Quick Ratio"),
                                   ratio_row + 1, self)>>

\* The body of the loop of _add_income_statement_items, with its
\* calculated row.
IncomeRow(item, row, self) ==
    LET item_name == item[1]
        field_name == item[2]
        w1 == Label("C", row, item_name)
    IN IF field_name # NoField
       THEN AddBoth(w1, row, self.quarterly_income, self.annual_income, field_name)
       ELSE IF item_name = "Gross Margin"
       THEN _calculate_gross_margin(w1, row, self)
       ELSE w1

\* TeslaFinancialReportGenerator._add_income_statement_items
_add_income_statement_items(start_row, self) ==
    [i \in 1..Len(income_items) |-> IncomeRow(income_items[i], start_row + i - 1, self)]

\* One sub-section of _add_cash_flow_items: the bold header, the items and
\* the sub-total; the next sub-section starts two rows below the sub-total.
CashFlowSection(row, header, items, total_label, total_field, self) ==
    LET total_row == row + 1 + Len(items)
    IN <<Label("B", row, header)>>
       \o AddItems(items, row + 1, self.quarterly_cashflow, self.annual_cashflow)
       \o <<AddBoth(Label("B", total_row, total_label), total_row,
                    self.quarterly_cashflow, self.annual_cashflow, total_field)>>

\* TeslaFinancialReportGenerator._add_cash_flow_items
_add_cash_flow_items(start_row, self) ==
    LET investing_row == start_row + 1 + Len(operating_items) + 2
        financing_row == investing_row + 1 + Len(investing_items) + 2
        net_row == financing_row + 1 + Len(financing_items) + 2
    IN CashFlowSection(start_row, "Cash Flows-Operating Activities:",
                       operating_items, "Net Cash Flow-Operating",
                       "Operating Cash Flow", self)
       \o CashFlowSection(investing_row, "Cash Flows-Investing Activities:",
                          investing_items, "Net Cash Flows-Investing",
                          "Investing Cash Flow", self)
       \o CashFlowSection(financing_row, "Cash Flows-Financing Activities:",
                          financing_items, "Net Cash Flows-Financing",
                          "Financing Cash Flow", self)
       \o <<_calculate_net_cash_flow(Label("B", net_row, "Net Cash Flow"),
                                     net_row, self)>>

\* Several cells of one row, left to right: cells is a sequence of
\* <<column, value>>.
RECURSIVE SetRow(_, _, _, _)
SetRow(w, row, cells, i) ==
    IF i > Len(cells) THEN w
    ELSE SetRow(SetValue(w, cells[i][1], row, cells[i][2]), row, cells, i + 1)

\* The three period dates under the headers, if the table has three periods.
DateRow(df, cols) ==
    IF ~IsNone(df) /\ df.columns >= 3
    THEN SetRow(Blank, 6, <<<<cols[1], Str(ColumnDate(1))>>,
                            <<cols[2], Str(ColumnDate(2))>>,
                            <<cols[3], Str(ColumnDate(3))>>>>, 1)
    ELSE Blank

\* A plausible slip: the annual headers put three rows down, on the row
\* where the section's items start.
Mutant_FiscalYearRow(row, year) ==
    SetRow(Blank, row + 3, <<<<"K", Str(FiscalYear(year - 1))>>,
                             <<"M", Str(FiscalYear(year - 2))>>,
                             <<"O", Str(FiscalYear(year - 3))>>>>, 1)

\* f"FY {datetime.now().year - k}" in K, M and O of a header row.
FiscalYearRow(row, year) ==
    SetRow(Blank, row, <<<<"K", Str(FiscalYear(year - 1))>>,
                         <<"M", Str(FiscalYear(year - 2))>>,
                         <<"O", Str(FiscalYear(year - 3))>>>>, 1)

\* The writes of TeslaFinancialReportGenerator.create_excel_report, in
\* order (fonts, the merged title and the column widths are left out), for
\* a run in calendar year `year`.
ReportWrites(self, year) ==
    <<Label("A", 1, "FINANCIAL STATEMENTS"),
      Label("A", 3, "Balance Sheet Data:"),
      SetRow(Blank, 5, <<<<"B", Str("In Thousands")>>,
                         <<"C", Number(Num(1000))>>,
                         <<"E", Str("Q")>>, <<"G", Str("Q")>>,
                         <<"I", Str("Q")>>>>, 1),
      FiscalYearRow(5, year),
      DateRow(self.quarterly_balance_sheet, QuarterlyCols),
      DateRow(self.annual_balance_sheet, AnnualCols),
      SetRow(Blank, 7, <<<<"B", Str("Assets:")>>,
                         <<"F", Str("Delta%")>>, <<"H", Str("Delta%")>>,
                         <<"J", Str("Delta%")>>, <<"L", Str("Delta%")>>,
                         <<"N", Str("Delta%")>>>>, 1)>>
    \o _add_balance_sheet_items(8, self)
    \o <<Label("A", 31, "Income Statement:"), FiscalYearRow(32, year)>>
    \o _add_income_statement_items(35, self)
    \o <<Label("A", 56, "Cash Flows:"), FiscalYearRow(57, year)>>
    \o _add_cash_flow_items(62, self)

\* TeslaFinancialReportGenerator.create_excel_report: the cells of the
\* workbook it saves.
create_excel_report(self, year) == Worksheet(ReportWrites(self, year))

-----------------------------------------------------------------------------
(* TeslaFinancialReportGenerator: one run of generate_report *)

\* The order in which fetch_all_data reads the ticker's properties, with the
\* attribute each is stored in.
FetchOrder ==
    <<<<"quarterly_balance_sheet", "quarterly_balance_sheet">>,
      <<"quarterly_income_stmt", "quarterly_income">>,
      <<"quarterly_cash_flow", "quarterly_cashflow">>,
      <<"balance_sheet", "annual_balance_sheet">>,
      <<"income_stmt", "annual_income">>,
      <<"cash_flow", "annual_cashflow">>>>

\* TeslaFinancialReportGenerator.__init__: every table attribute is None.
NoTables ==
    [quarterly_balance_sheet |-> None, annual_balance_sheet |-> None,
     quarterly_income |-> None, annual_income |-> None,
     quarterly_cashflow |-> None, annual_cashflow |-> None]

\* The reads that raise, in fetch order.
RaisingReads(source) == {i \in 1..Len(FetchOrder) : source[FetchOrder[i][1]] = Raises}

Minimum(S) == CHOOSE m \in S : \A x \in S : m <= x

\* How many reads fetch_all_data completes before the first one that raises.
ReadsDone(source) ==
    IF RaisingReads(source) = {} THEN Len(FetchOrder)
    ELSE Minimum(RaisingReads(source)) - 1

\* fetch_all_data's return value: True unless a read raised.
FetchSucceeds(source) == RaisingReads(source) = {}

\* The attributes after fetch_all_data: those read before the first raise.
Fetched(source) ==
    [attr \in DOMAIN NoTables |->
        LET i == CHOOSE j \in 1..Len(FetchOrder) : FetchOrder[j][2] = attr
        IN IF i <= ReadsDone(source) /\ source[FetchOrder[i][1]] # Raises
           THEN source[FetchOrder[i][1]]
           ELSE None]

\* generate_report up to its check of fetch_all_data's result: on failure it
\* returns False without creating a workbook.
fetch_all_data ==
    /\ pc = "start"
    /\ tables' = Fetched(yf)
    /\ IF FetchSucceeds(yf)
       THEN pc' = "tesla_fetched" /\ ret' = ret
       ELSE pc' = "tesla_done" /\ ret' = "False"
    /\ UNCHANGED <<yf, data, ws, current, previous, result, now, wb>>

\* The rest of generate_report: the workbook is built and saved, and the
\* run returns True.
generate_report ==
    /\ pc = "tesla_fetched"
    /\ ws' = create_excel_report(tables, now)
    /\ ret' = "True"
    /\ pc' = "tesla_done"
    /\ UNCHANGED <<yf, tables, data, current, previous, result, now, wb>>

-----------------------------------------------------------------------------
(* FinancialDataScraper *)

\* The dict keys of get_balance_sheet_data with the line item each reads.
balance_sheet_fields ==
    <<<<"cash_equivalents", "Cash And Cash Equivalents">>,
      <<"short_term_investments", "Other Short Term Investments">>,
      <<"accounts_receivable", "Accounts Receivable">>,
      <<"inventory", "Inventory">>,
      <<"total_current_assets", "Total Current Assets">>,
      <<"ppe", "Property Plant Equipment Net">>,
      <<"total_assets", "Total Assets">>,
      <<"accounts_payable", "Accounts Payable">>,
      <<"short_term_debt", "Short Term Debt">>,
      <<"total_current_liabilities", "Total Current Liabilities">>,
      <<"long_term_debt", "Long Term Debt">>,
      <<"total_liabilities", "Total Liabilities">>,
      <<"total_equity", "Total Stockholder Equity">>>>

income_statement_fields ==
    <<<<"revenue", "Total Revenue">>,
      <<"cost_of_revenue", "Cost Of Revenue">>,
      <<"gross_profit", "Gross Profit">>,
      <<"operating_expenses", "Operating Expense">>,
      <<"operating_income", "Operating Income">>,
      <<"ebit", "EBIT">>,
      <<"interest_expense", "Interest Expense">>,
      <<"pretax_income", "Pretax Income">>,
      <<"tax_expense", "Tax Provision">>,
      <<"net_income", "Net Income">>>>

cash_flow_fields ==
    <<<<"operating_cash_flow", "Operating Cash Flow">>,
      <<"depreciation", "Depreciation">>,
      <<"capex", "Capital Expenditure">>,
      <<"investing_cash_flow", "Investing Cash Flow">>,
      <<"debt_repayment", "Repayment Of Debt">>,
      <<"dividends_paid", "Cash Dividends Paid">>,
      <<"financing_cash_flow", "Financing Cash Flow">>,
      <<"free_cash_flow", "Free Cash Flow">>>>

\* table.loc[item].tolist()[:3] if item in table.index else [0,0,0]
ItemOrZeros(table, line_item) ==
    IF line_item \in Index(table) THEN Take3(table.rows[line_item]) ELSE Zeros

\* The dict of a scraper method: one entry per field.
FieldDict(table, fields) ==
    [key \in {fields[i][1] : i \in 1..Len(fields)} |->
        LET i == CHOOSE j \in 1..Len(fields) : fields[j][1] = key
        IN ItemOrZeros(table, fields[i][2])]

\* balance_sheet.columns.strftime('%m/%d/%Y').tolist()[:3]
Dates(table) == [p \in 1..MinInt(table.columns, NumPeriods) |-> ColumnDate(p)]

\* The read of a property raised, or the property is None and its first
\* use raises AttributeError: the scraper method returns None.
Unusable(table) == table = Raises \/ table = None

\* FinancialDataScraper.get_balance_sheet_data
get_balance_sheet_data(source) ==
    LET balance_sheet == source["quarterly_balance_sheet"]
    IN IF Unusable(balance_sheet) THEN None
       ELSE [dates |-> Dates(balance_sheet),
             items |-> FieldDict(balance_sheet, balance_sheet_fields)]

\* FinancialDataScraper.get_income_statement_data
get_income_statement_data(source) ==
    LET income_stmt == source["quarterly_income_stmt"]
    IN IF Unusable(income_stmt) THEN None
       ELSE [items |-> FieldDict(income_stmt, income_statement_fields)]

\* FinancialDataScraper.get_cash_flow_data
get_cash_flow_data(source) ==
    LET cash_flow == source["quarterly_cash_flow"]
    IN IF Unusable(cash_flow) THEN None
       ELSE [items |-> FieldDict(cash_flow, cash_flow_fields)]

-----------------------------------------------------------------------------
(* ExcelReportGenerator *)

\* ExcelReportGenerator.format_currency, as characters: f"${value:,.0f}"
format_currency_chars(value) ==
    IF LtInt(value, 0) THEN <<"$", "-">> \o FixedChars(AbsNum(value))
    ELSE <<"$">> \o FixedChars(value)

\* ExcelReportGenerator.format_currency
format_currency(value) == Join(format_currency_chars(value))

\* self.percent_format
percent_format == "0.00%"

\* A step of create_report: the cells it writes, and whether it completes
\* (ok) or raises IndexError after writing them.
Completes(cells) == [cells |-> cells, ok |-> TRUE]

RaisesAfter(cells) == [cells |-> cells, ok |-> FALSE]

\* The body of the item loops: the label in D, the three values in F, H and
\* J, then (with_delta) the two deltas in G and I and their formats.
\* values[k] of a list shorter than k+1 raises IndexError.
ItemStep(row, item_name, values, with_delta) ==
    LET w0 == Label("D", row, item_name)
        w1 == SetValue(w0, "F", row, Str(format_currency(values[1])))
        w2 == SetValue(w1, "H", row, Str(format_currency(values[2])))
        w3 == SetValue(w2, "J", row, Str(format_currency(values[3])))
        w4 == SetValue(w3, "G", row,
                       Number(calculate_percentage_change(values[1], values[2])))
        w5 == SetValue(w4, "I", row,
                       Number(calculate_percentage_change(values[2], values[3])))
        w6 == SetFormat(SetFormat(w5, "G", row, percent_format),
                        "I", row, percent_format)
    IN IF Len(values) = 0 THEN RaisesAfter(w0)
       ELSE IF Len(values) = 1 THEN RaisesAfter(w1)
       ELSE IF Len(values) = 2 THEN RaisesAfter(w2)
       ELSE IF with_delta THEN Completes(w6)
       ELSE Completes(w3)

\* The rows that write value, delta, value, delta, value from left to right
\* in the columns cols, and the two formats last.
InterleavedStep(w0, row, values, cols) ==
    LET w1 == SetValue(w0, cols[1], row, Str(format_currency(values[1])))
        w2 == SetValue(w1, cols[2], row,
                       Number(calculate_percentage_change(values[1], values[2])))
        w3 == SetValue(w2, cols[3], row, Str(format_currency(values[2])))
        w4 == SetValue(w3, cols[4], row,
                       Number(calculate_percentage_change(values[2], values[3])))
        w5 == SetValue(w4, cols[5], row, Str(format_currency(values[3])))
        w6 == SetFormat(SetFormat(w5, cols[2], row, percent_format),
                        cols[4], row, percent_format)
    IN IF Len(values) = 0 THEN RaisesAfter(w0)
       ELSE IF Len(values) = 1 THEN RaisesAfter(w1)
       ELSE IF Len(values) = 2 THEN RaisesAfter(w3)
       ELSE Completes(w6)

\* The catalogues of create_report: the label and the dict key of each row.
asset_items ==
    <<<<"Cash and Equivalents", "cash_equivalents">>,
      <<"Short-Term Investments", "short_term_investments">>,
      <<"Accounts Receivable", "accounts_receivable">>,
      <<"Inventory", "inventory">>,
      <<"Total Current Assets", "total_current_assets">>,
      <<"Property Plant and Equipment (PP&E)", "ppe">>,
      <<"Total Assets", "total_assets">>>>

excel_liability_items ==
    <<<<"Accounts Payable", "accounts_payable">>,
      <<"Short-Term Debt", "short_term_debt">>,
      <<"Total Current Liabilities", "total_current_liabilities">>,
      <<"Long-Term Debt", "long_term_debt">>,
      <<"Total Liabilities", "total_liabilities">>>>

excel_income_items ==
    <<<<"Revenue", "revenue">>,
      <<"Cost of Revenue", "cost_of_revenue">>,
      <<"Gross Profit", "gross_profit">>,
      <<"Operating Expenses", "operating_expenses">>,
      <<"Operating Income", "operating_income">>,
      <<"EBIT", "ebit">>,
      <<"Interest Expense", "interest_expense">>,
      <<"Pretax Income", "pretax_income">>,
      <<"Tax Expense", "tax_expense">>,
      <<"Net Income", "net_income">>>>

\* [f(i) for i in range(3)] over lists: IndexError if one is shorter.
HasThree(values) == Len(values) >= NumPeriods

\* A plausible slip: the difference the other way round.
Mutant_working_capital(ca, cl) ==
    [i \in 1..NumPeriods |-> SubNum(cl[i], ca[i])]

\* create_report, lines 234-238: the working_capital list
working_capital(ca, cl) ==
    [i \in 1..NumPeriods |-> SubNum(ca[i], cl[i])]

\* create_report, lines 261-265 and 273-282: numerator / cl if cl != 0 else 0,
\* for the numerators ca - less
excel_ratio(ca, less, cl) ==
    [i \in 1..NumPeriods |->
        IF NeZero(cl[i]) THEN DivNum(SubNum(ca[i], less[i]), cl[i]) ELSE Num(0)]

\* create_report, lines 391-396: the net_cash_flow list
net_cash_flow(op, inv, fin) ==
    [i \in 1..NumPeriods |-> AddNum(AddNum(op[i], inv[i]), fin[i])]

\* A calculated row whose three cells are written in F, H and J.
ThreeCells(w0, row, cells) ==
    SetRow(w0, row, <<<<"F", cells[1]>>, <<"H", cells[2]>>, <<"J", cells[3]>>>>, 1)

\* The list comprehensions of the two ratios complete if every index they
\* read exists: cl[i] always, the numerator's lists only where cl[i] != 0.
RatioCompletes(ca, less, cl) ==
    \A i \in 1..NumPeriods :
        /\ i <= Len(cl)
        /\ NeZero(cl[i]) => (i <= Len(ca) /\ i <= Len(less))

\* ws['F6'] = dates[0]; ws['H6'] = dates[1]; ws['J6'] = dates[2]
DateStep(dates) ==
    LET cols == <<"F", "H", "J">>
        w == SetRow(Blank, 6, [i \in 1..MinInt(Len(dates), NumPeriods) |->
                                  <<cols[i], Str(dates[i])>>], 1)
    IN IF HasThree(dates) THEN Completes(w) ELSE RaisesAfter(w)

\* The Working Capital row of create_report.
WorkingCapitalStep(row, ca, cl) ==
    IF HasThree(ca) /\ HasThree(cl)
    THEN InterleavedStep(Label("C", row, "Working Capital"), row,
                         working_capital(ca, cl), <<"D", "F", "G", "I", "J">>)
    ELSE RaisesAfter(Blank)

\* The Current Ratio and Quick Ratio rows of create_report.
RatioStep(row, label, ca, less, cl) ==
    IF RatioCompletes(ca, less, cl)
    THEN LET ratio == excel_ratio(ca, less, cl)
         IN Completes(ThreeCells(Label("C", row, label), row,
                                 [i \in 1..NumPeriods |-> Number(Round2(ratio[i]))]))
    ELSE RaisesAfter(Blank)

\* The Net Cash Flow row of create_report.
NetCashFlowStep(row, op, inv, fin) ==
    IF HasThree(op) /\ HasThree(inv) /\ HasThree(fin)
    THEN LET net == net_cash_flow(op, inv, fin)
         IN Completes(ThreeCells(Label("D", row, "Net Cash Flow"), row,
                                 [i \in 1..NumPeriods |-> Str(format_currency(net[i]))]))
    ELSE RaisesAfter(Blank)

\* for item_name, values in items: ...; row += 1
ItemSteps(items, start_row, dict, first_without_delta) ==
    [i \in 1..Len(items) |->
        ItemStep(start_row + i - 1, items[i][1], dict.items[items[i][2]],
                 ~(first_without_delta /\ i = 1))]

\* The steps of ExcelReportGenerator.create_report, in order (fonts and
\* column widths are left out).
ReportSteps(balance_sheet_data, income_stmt_data, cash_flow_data) ==
    LET bs == balance_sheet_data.items
        cf == cash_flow_data.items
        liabilities_row == 8 + Len(asset_items) + 1
        metrics_row == liabilities_row + 1 + Len(excel_liability_items) + 1
        income_row == metrics_row + 4 + 3
        cash_row == income_row + 2 + Len(excel_income_items) + 3
    IN <<Completes(Label("B", 1, "FINANCIAL STATEMENTS")),
         Completes(Label("B", 3, "Balance Sheet Data:")),
         Completes(SetRow(Blank, 5, <<<<"C", Str("In Thousands")>>,
                                      <<"D", Number(Num(1000))>>,
                                      <<"F", Str("Q")>>, <<"H", Str("Q")>>,
                                      <<"J", Str("Q")>>>>, 1)),
         DateStep(balance_sheet_data.dates),
         Completes(SetRow(Blank, 7, <<<<"C", Str("Assets:")>>,
                                      <<"G", Str("Delta%")>>,
                                      <<"I", Str("Delta%")>>>>, 1))>>
       \o ItemSteps(asset_items, 8, balance_sheet_data, TRUE)
       \o <<Completes(Label("C", liabilities_row, "Liabilities:"))>>
       \o ItemSteps(excel_liability_items, liabilities_row + 1,
                    balance_sheet_data, FALSE)
       \o <<WorkingCapitalStep(metrics_row, bs["total_current_assets"],
                               bs["total_current_liabilities"]),
            InterleavedStep(Label("C", metrics_row + 1, "Net Worth (OE)"),
                            metrics_row + 1, bs["total_equity"],
                            <<"D", "F", "G", "I", "J">>),
            RatioStep(metrics_row + 2, "Current Ratio",
                      bs["total_current_assets"], Zeros,
                      bs["total_current_liabilities"]),
            RatioStep(metrics_row + 3, "Quick Ratio",
                      bs["total_current_assets"], bs["inventory"],
                      bs["total_current_liabilities"]),
            Completes(Label("B", income_row, "Income Statement:"))>>
       \o ItemSteps(excel_income_items, income_row + 2, income_stmt_data, TRUE)
       \o <<Completes(Label("B", cash_row, "Cash Flows:")),
            Completes(Label("C", cash_row + 2, "Cash Flows-Operating Activities:")),
            ItemStep(cash_row + 3, "Net Income",
                     income_stmt_data.items["net_income"], FALSE),
            ItemStep(cash_row + 4, "Depreciation & Amortization",
                     cf["depreciation"], FALSE),
            InterleavedStep(Label("D", cash_row + 5, "Net Cash Flow-Operating"),
                            cash_row + 5, cf["operating_cash_flow"],
                            <<"F", "G", "H", "I", "J">>),
            Completes(Label("C", cash_row + 7, "Cash Flows-Investing Activities:")),
            ItemStep(cash_row + 8, "Capital Expenditures", cf["capex"], FALSE),
            ItemStep(cash_row + 9, "Net Cash Flows-Investing",
                     cf["investing_cash_flow"], FALSE),
            Completes(Label("C", cash_row + 11, "Cash Flows-Financing Activities:")),
            ItemStep(cash_row + 12, "Debt Repayment", cf["debt_repayment"], FALSE),
            ItemStep(cash_row + 13, "Net Cash Flows-Financing",
                     cf["financing_cash_flow"], FALSE),
            NetCashFlowStep(cash_row + 15, cf["operating_cash_flow"],
                            cf["investing_cash_flow"], cf["financing_cash_flow"])>>

\* The steps that raise.
RaisingSteps(steps) == {i \in 1..Len(steps) : ~steps[i].ok}

\* The steps create_report executes: all, or those up to the first that
\* raises.
StepsDone(steps) ==
    IF RaisingSteps(steps) = {} THEN Len(steps) ELSE Minimum(RaisingSteps(steps))

\* ExcelReportGenerator.create_report: the cells of the workbook when it
\* returns or raises, and whether it raises IndexError.
create_report(balance_sheet_data, income_stmt_data, cash_flow_data) ==
    LET steps == ReportSteps(balance_sheet_data, income_stmt_data, cash_flow_data)
    IN [ws |-> Worksheet([i \in 1..StepsDone(steps) |-> steps[i].cells]),
        raises |-> RaisingSteps(steps) # {}]

-----------------------------------------------------------------------------
(* FinancialReportAutomation (financial_report_generator.py): one run *)

\* all([balance_sheet_data, income_stmt_data, cash_flow_data]): None is
\* falsy, a dict with keys is truthy.
AllFetched(d) ==
    /\ d.balance_sheet_data # None
    /\ d.income_stmt_data # None
    /\ d.cash_flow_data # None

\* FinancialReportAutomation.generate_report up to its check of the three
\* dicts: if one is None it returns False without creating a workbook.
scraper_get_data ==
    /\ pc = "start"
    /\ data' = [balance_sheet_data |-> get_balance_sheet_data(yf),
                income_stmt_data |-> get_income_statement_data(yf),
                cash_flow_data |-> get_cash_flow_data(yf)]
    /\ IF AllFetched(data')
       THEN pc' = "excel_fetched" /\ ret' = ret
       ELSE pc' = "excel_done" /\ ret' = "False"
    /\ UNCHANGED <<yf, tables, ws, current, previous, result, now, wb>>

\* The rest of FinancialReportAutomation.generate_report: create_report and
\* save_report, then True; an IndexError of create_report is not caught, and
\* nothing is saved.
report_generator_create_report ==
    /\ pc = "excel_fetched"
    /\ LET report == create_report(data.balance_sheet_data,
                                   data.income_stmt_data, data.cash_flow_data)
       IN /\ ws' = report.ws
          /\ ret' = IF report.raises THEN "IndexError" ELSE "True"
    /\ pc' = "excel_done"
    /\ UNCHANGED <<yf, tables, data, current, previous, result, now, wb>>

-----------------------------------------------------------------------------
(* Specification of one run of either report generator *)

InitReport ==
    /\ yf \in YfInputs
    /\ tables = NoTables
    /\ data = <<>>
    /\ ws = Blank
    /\ ret = "none"
    /\ pc = "start"
    /\ current = NaN
    /\ previous = NaN
    /\ result = NaN
    /\ now = 2025
    /\ wb = <<>>

NextReport ==
    \/ fetch_all_data
    \/ generate_report
    \/ scraper_get_data
    \/ report_generator_create_report

SpecReport == InitReport /\ [][NextReport]_vars

-----------------------------------------------------------------------------
(* Where the reports put their rows *)

\* create_excel_report calls _add_balance_sheet_items with row = 8 and
\* _add_cash_flow_items with row = 62.
TeslaRowOf(items, start_row, item_name) ==
    start_row - 1 + CHOOSE i \in 1..Len(items) : items[i][1] = item_name

TeslaWorkingCapitalRow == TeslaRowOf(balance_sheet_items, 8, "Working Capital")

TeslaCurrentRatioRow ==
    8 + Len(balance_sheet_items) + 1 + 1 + Len(liability_items) + 1

TeslaQuickRatioRow == TeslaCurrentRatioRow + 1

\* create_report: the rows of the key metrics and of the net cash flow.
ExcelWorkingCapitalRow ==
    8 + Len(asset_items) + 1 + 1 + Len(excel_liability_items) + 1

ExcelCurrentRatioRow == ExcelWorkingCapitalRow + 2

ExcelQuickRatioRow == ExcelWorkingCapitalRow + 3

ExcelNetCashFlowRow ==
    ExcelWorkingCapitalRow + 4 + 3 + 2 + Len(excel_income_items) + 3 + 15

ExcelCols == <<"F", "H", "J">>

\* The Working Capital row of create_report puts its values in D, G and J.
ExcelWorkingCapitalCols == <<"D", "G", "J">>

-----------------------------------------------------------------------------
(* Claims about the reports *)

TeslaDone == pc = "tesla_done" /\ ret = "True"

ExcelDone == pc = "excel_done" /\ ret = "True"

IsDataFrame(t) == t.kind = "DataFrame"

\* The cell has been written with the value v.
CellIs(w, col, row, v) == Written(w, col, row) /\ w[<<col, row>>].value = v

\* The specification's resolving of a line item: period i of the item, or
\* missing if the table, the item or the period is absent.
PeriodOf(table, key, i) ==
    IF IsDataFrame(table) /\ key \in Index(table) /\ i <= Len(table.rows[key])
    THEN table.rows[key][i]
    ELSE NaN

\* The tables differ from the complete ones only in what is missing: a
\* table is None, or lacks line items, or has fewer periods.
OnlyMissingDiffers(source) ==
    \A t \in TableNames :
        \/ source[t] = None
        \/ /\ IsDataFrame(source[t])
           /\ source[t].columns <= NumPeriods
           /\ source[t] \in ShapeTables(KindOf(t))

\* The addresses of the report of complete tables.
CompleteGrid == DOMAIN create_excel_report(Fetched(BaseYf), 2025)

\* C3 (as stated): whatever is missing from the tables, create_excel_report
\* writes the same set of cell addresses as for complete tables.
C3_GridShapeInvariant ==
    (TeslaDone /\ OnlyMissingDiffers(yf)) => DOMAIN ws = CompleteGrid

\* C4 (as stated): where the current liabilities of a period are 0 or
\* missing, no number is written as that period's Current Ratio or Quick
\* Ratio; in particular not the number 0.
C4_RatioUndefinedNeverZero ==
    ExcelDone =>
        \A i \in 1..NumPeriods :
            LET cl == PeriodOf(yf["quarterly_balance_sheet"],
                               "Total Current Liabilities", i)
            IN (IsNaN(cl) \/ EqZero(cl)) =>
                  \A row \in {ExcelCurrentRatioRow, ExcelQuickRatioRow} :
                      ~(/\ Written(ws, ExcelCols[i], row)
                        /\ IsNumber(ws[<<ExcelCols[i], row>>].value)
                        /\ IsFinite(ws[<<ExcelCols[i], row>>].value.num))

\* x, with missing counted as 0.
OrZero(x) == IF IsNaN(x) THEN Num(0) ELSE x

\* C5 (as stated): where at least one of the operating, investing and
\* financing cash flow of a period is present, the Net Cash Flow of the
\* period is the sum of the present ones.
C5_NetCashFlowSumOfAvailable ==
    ExcelDone =>
        \A i \in 1..NumPeriods :
            LET op == PeriodOf(yf["quarterly_cash_flow"], "Operating Cash Flow", i)
                inv == PeriodOf(yf["quarterly_cash_flow"], "Investing Cash Flow", i)
                fin == PeriodOf(yf["quarterly_cash_flow"], "Financing Cash Flow", i)
                sum == Num(OrZero(op).n + OrZero(inv).n + OrZero(fin).n)
            IN (~IsNaN(op) \/ ~IsNaN(inv) \/ ~IsNaN(fin)) =>
                  CellIs(ws, ExcelCols[i], ExcelNetCashFlowRow,
                         Str(format_currency(sum)))

\* C6 (as stated): a run that obtained at least one of its tables returns
\* True, with a report.
C6_FailsOnlyWithoutAnyTable ==
    /\ (pc = "tesla_done" /\ \E t \in TableNames : IsDataFrame(yf[t]))
          => (ret = "True" /\ ws # Blank)
    /\ (pc = "excel_done"
          /\ \E t \in {"quarterly_balance_sheet", "quarterly_income_stmt",
                       "quarterly_cash_flow"} : IsDataFrame(yf[t]))
          => (ret = "True" /\ ws # Blank)

\* C7 (as stated): a line item that is not a key of its table resolves to
\* three missing markers, not to [0, 0, 0].
C7_AbsentItemResolvesMissing ==
    (pc \in {"excel_fetched", "excel_done"} /\ data.balance_sheet_data # None) =>
        \A f \in 1..Len(balance_sheet_fields) :
            balance_sheet_fields[f][2] \notin Index(yf["quarterly_balance_sheet"]) =>
                data.balance_sheet_data.items[balance_sheet_fields[f][1]]
                    = <<NaN, NaN, NaN>>

\* C8 (as stated): of a table with fewer than 3 periods, the periods that
\* exist are placed in the leading value cells of a row, together with the
\* delta between them.
C8_ShortTablePadded ==
    LET df == yf["quarterly_balance_sheet"]
    IN (TeslaDone /\ IsDataFrame(df) /\ df.columns < NumPeriods) =>
          \A k \in 1..Len(liability_items) :
              LET field_name == liability_items[k][2]
                  row == TeslaRowOf(liability_items,
                                    8 + Len(balance_sheet_items) + 2,
                                    liability_items[k][1])
              IN field_name \in Index(df) =>
                    /\ \A i \in 1..df.columns :
                          CellIs(ws, QuarterlyCols[i], row,
                                 Str(_format_currency(df.rows[field_name][i])))
                    /\ df.columns >= 2 =>
                          CellIs(ws, QuarterlyPctCols[1], row,
                                 Number(_calculate_pct_change(
                                            df.rows[field_name][1],
                                            df.rows[field_name][2])))

\* C9 (as stated): in the Working Capital row as in every row, the first
\* delta is the change of period 0 against period 1 and the second the
\* change of period 1 against period 2.
C9_DeltaDirection ==
    LET df == yf["quarterly_balance_sheet"]
        wc(i) == SubNum(df.rows["Total Current Assets"][i],
                        df.rows["Total Current Liabilities"][i])
    IN (/\ TeslaDone
        /\ IsDataFrame(df)
        /\ df.columns >= NumPeriods
        /\ {"Total Current Assets", "Total Current Liabilities",
            "Total Assets"} \subseteq Index(df)) =>
          /\ CellIs(ws, "F", TeslaRowOf(balance_sheet_items, 8, "Total Assets"),
                    Number(_calculate_pct_change(df.rows["Total Assets"][1],
                                                 df.rows["Total Assets"][2])))
          /\ CellIs(ws, "F", TeslaWorkingCapitalRow,
                    Number(_calculate_pct_change(wc(1), wc(2))))
          /\ CellIs(ws, "H", TeslaWorkingCapitalRow,
                    Number(_calculate_pct_change(wc(2), wc(3))))

\* ca - cl, missing if either is missing.
DifferenceOrMissing(ca, cl) ==
    IF IsNaN(ca) \/ IsNaN(cl) THEN NaN
    ELSE Frac(ca.n * cl.d - cl.n * ca.d, ca.d * cl.d)

\* C10: the Working Capital of each of the three periods is current assets
\* minus current liabilities of that period, and missing where either of
\* the two is missing.  Stated on the cells: each value cell of the Working
\* Capital row shows that difference of the two lists the calculation is
\* given.
C10_WorkingCapitalElementwise ==
    /\ (/\ TeslaDone
        /\ IsDataFrame(tables.quarterly_balance_sheet)
        /\ {"Total Current Assets", "Total Current Liabilities"}
              \subseteq Index(tables.quarterly_balance_sheet)) =>
          LET df == tables.quarterly_balance_sheet
          IN \A i \in 1..MinInt(df.columns, NumPeriods) :
                CellIs(ws, QuarterlyCols[i], TeslaWorkingCapitalRow,
                       Str(_format_currency(DifferenceOrMissing(
                               df.rows["Total Current Assets"][i],
                               df.rows["Total Current Liabilities"][i]))))
    /\ ExcelDone =>
          LET bs == data.balance_sheet_data.items
          IN \A i \in 1..NumPeriods :
                CellIs(ws, ExcelWorkingCapitalCols[i], ExcelWorkingCapitalRow,
                       Str(format_currency(DifferenceOrMissing(
                               bs["total_current_assets"][i],
                               bs["total_current_liabilities"][i]))))

\* A report has been written in which the current assets of the most recent
\* period are missing, the current liabilities are not, and the Working
\* Capital of that period shows as missing.
C10_Witness ==
    /\ ExcelDone
    /\ IsNaN(data.balance_sheet_data.items["total_current_assets"][1])
    /\ IsFinite(data.balance_sheet_data.items["total_current_liabilities"][1])
    /\ CellIs(ws, "D", ExcelWorkingCapitalRow, Str("$nan"))

\* The quarterly balance sheet delivered is the one of the worked examples.
ScenarioBalanceSheet ==
    yf["quarterly_balance_sheet"] \in ScenarioTables("balance_sheet")

\* x to four decimal places, in ten-thousandths.
TenThousandths(x) == RoundHalfEven(Frac(10000 * x.n, x.d))

\* The cells of scenario A, with `oldest` as the Working Capital shown for
\* the oldest period.
ScenarioA(oldest) ==
    /\ (TeslaDone /\ ScenarioBalanceSheet) =>
          /\ CellIs(ws, "E", TeslaWorkingCapitalRow, Str("$50"))
          /\ CellIs(ws, "G", TeslaWorkingCapitalRow, Str("$45"))
          /\ CellIs(ws, "I", TeslaWorkingCapitalRow, Str(oldest))
          /\ \A i \in 1..NumPeriods :
                CellIs(ws, QuarterlyCols[i], TeslaCurrentRatioRow, Number(Num(2)))
          /\ LET row == TeslaRowOf(balance_sheet_items, 8, "Current Assets")
             IN /\ Written(ws, "F", row)
                /\ IsNumber(ws[<<"F", row>>].value)
                /\ TenThousandths(ws[<<"F", row>>].value.num) = 1111
    /\ (ExcelDone /\ ScenarioBalanceSheet) =>
          /\ CellIs(ws, "D", ExcelWorkingCapitalRow, Str("$50"))
          /\ CellIs(ws, "G", ExcelWorkingCapitalRow, Str("$45"))
          /\ CellIs(ws, "J", ExcelWorkingCapitalRow, Str(oldest))
          /\ \A i \in 1..NumPeriods :
                CellIs(ws, ExcelCols[i], ExcelCurrentRatioRow, Number(Num(2)))
          /\ LET row == TeslaRowOf(asset_items, 8, "Total Current Assets")
             IN /\ Written(ws, "G", row)
                /\ IsNumber(ws[<<"G", row>>].value)
                /\ TenThousandths(ws[<<"G", row>>].value.num) = 1111

\* C11 (amended): with current assets [100, 90, 80] and current liabilities
\* [50, 45, 40] the Working Capital is [50, 45, 40], the Current Ratio is
\* [2.00, 2.00, 2.00] and the change from 90 to 100 is 0.1111 to four
\* decimal places.
C11_ScenarioA == ScenarioA("$40")

\* C11 (as stated): the same, with Working Capital [50, 45, 35].
C11_ScenarioA_AsStated == ScenarioA("$35")

\* A report of scenario A's balance sheet has been finished: the Working
\* Capital of the oldest period shows 40.
C11_Witness ==
    /\ TeslaDone
    /\ ScenarioBalanceSheet
    /\ CellIs(ws, "I", TeslaWorkingCapitalRow, Str("$40"))

TeslaGrossMarginRow == TeslaRowOf(income_items, 35, "Gross Margin")

\* The cell is unwritten, or holds no finite number.
NoFiniteNumber(w, col, row) ==
    ~(/\ Written(w, col, row)
      /\ IsNumber(w[<<col, row>>].value)
      /\ IsFinite(w[<<col, row>>].value.num))

\* The Gross Margin cells of one column group show, period by period,
\* gross profit / revenue as a percentage where both are present and the
\* revenue is not 0, and no number elsewhere.
GrossMarginShown(table, cols) ==
    \A i \in 1..NumPeriods :
        LET rev == PeriodOf(table, "Total Revenue", i)
            gp == PeriodOf(table, "Gross Profit", i)
        IN IF IsFinite(rev) /\ IsFinite(gp) /\ rev.n # 0
           THEN /\ CellIs(ws, cols[i], TeslaGrossMarginRow,
                          Number(Frac(gp.n * rev.d, gp.d * rev.n)))
                /\ ws[<<cols[i], TeslaGrossMarginRow>>].number_format = "0.0%"
           ELSE NoFiniteNumber(ws, cols[i], TeslaGrossMarginRow)

\* C12: the Gross Margin of a period is gross profit / revenue when the
\* revenue is present and not 0, and undefined (no number in the cell, in
\* particular not 0) when the revenue is 0 or missing.
C12_GrossMargin ==
    TeslaDone =>
        /\ GrossMarginShown(tables.quarterly_income, QuarterlyCols)
        /\ GrossMarginShown(tables.annual_income, AnnualCols)

\* The report of revenue [0, 100, 100] and gross profit [0, 40, 50] has been
\* finished: no margin for the first period, 0.40 and 0.50 for the others.
C12_Witness ==
    /\ TeslaDone
    /\ yf["quarterly_income_stmt"] \in ScenarioTables("income_stmt")
    /\ ~Written(ws, "E", TeslaGrossMarginRow)
    /\ CellIs(ws, "G", TeslaGrossMarginRow, Number(Frac(2, 5)))
    /\ CellIs(ws, "I", TeslaGrossMarginRow, Number(Frac(1, 2)))

\* The delta cells of a finished report: the numbers in the delta columns
\* (the ratio rows of financial_report_generator.py hold their numbers in
\* the value columns F, H, J).
IsDeltaCell(a) ==
    /\ IsNumber(ws[a].value)
    /\ \/ pc = "tesla_done" /\ a[1] \in {"F", "H", "L", "N"}
       \/ pc = "excel_done" /\ a[1] \in {"G", "I"}
       \/ /\ pc = "excel_done"
          /\ a[1] = "F"
          /\ a[2] \in {ExcelWorkingCapitalRow, ExcelWorkingCapitalRow + 1}

\* The format the threshold rule gives a delta.
ThresholdFormat(x) == IF AbsInt(x.n) < 10 * x.d THEN "0.00%" ELSE "0.0"

\* C13 (as stated): every delta cell has the percent format with two
\* decimals when abs(delta) < 10 and the plain decimal format when
\* abs(delta) >= 10.
C13_DeltaFormatThreshold ==
    \A a \in DOMAIN ws :
        (IsDeltaCell(a) /\ IsFinite(ws[a].value.num)) =>
            ws[a].number_format = ThresholdFormat(ws[a].value.num)

-----------------------------------------------------------------------------
(* Specification of the currency formatters as pure functions *)

\* Largest multiple of 250 tried as a value, in either direction.
MaxCurrency == 20

\* The values tried: missing, the multiples of 250 up to MaxCurrency * 250
\* in magnitude (with and without a thousands separator), a half on either
\* side of 0, and a value with two separators on either side.
CurrencyVal ==
    {NaN} \cup {Num(k * 250) : k \in -MaxCurrency..MaxCurrency}
          \cup {Frac(1, 2), Frac(-1, 2), Num(1234567), Num(-1234567)}

InitFormat ==
    /\ NoReport
    /\ pc = "start"
    /\ current \in CurrencyVal
    /\ previous = NaN
    /\ result = NaN

Call_format_currency_tesla ==
    /\ pc = "start"
    /\ result' = Str(_format_currency(current))
    /\ pc' = "tesla_fmt"
    /\ UNCHANGED <<yf, tables, data, ws, ret, current, previous, now, wb>>

Call_format_currency ==
    /\ pc = "start"
    /\ result' = Str(format_currency(current))
    /\ pc' = "excel_fmt"
    /\ UNCHANGED <<yf, tables, data, ws, ret, current, previous, now, wb>>

NextFormat == Call_format_currency_tesla \/ Call_format_currency

SpecFormat == InitFormat /\ [][NextFormat]_vars

\* The three shapes: "$0", "$(N)" and "$N", N with thousands separators.
ThreeShapes(value) ==
    IF IsNaN(value) \/ value.n = 0 THEN "$0"
    ELSE IF value.n < 0
    THEN Join(<<"$", "(">> \o Grouped(AbsInt(RoundHalfEven(value))) \o <<")">>)
    ELSE Join(<<"$">> \o Grouped(RoundHalfEven(value)))

\* C14 (as stated): the currency formatter gives "$0" for zero and missing,
\* "$(N)" for a negative value and "$N" for a positive one; never a minus
\* sign.
C14_CurrencyThreeShapes ==
    pc \in {"tesla_fmt", "excel_fmt"} => result = Str(ThreeShapes(current))

-----------------------------------------------------------------------------
(* Further claims about the reports *)

\* Period i of the Inventory of a table, 0 if the table has no Inventory
\* line item.
InventoryOrZero(table, i) ==
    IF "Inventory" \in Index(table) THEN table.rows["Inventory"][i] ELSE Num(0)

\* The Quick Ratio of period i of a balance sheet with both totals.
QuickRatioOf(table, i) ==
    Round2(DivNum(SubNum(table.rows["Total Current Assets"][i],
                         InventoryOrZero(table, i)),
                  table.rows["Total Current Liabilities"][i]))

\* The table has both totals, and a current liability in period i that is
\* a number other than 0.
QuickRatioDefined(table, i) ==
    /\ IsDataFrame(table)
    /\ {"Total Current Assets", "Total Current Liabilities"} \subseteq Index(table)
    /\ i <= table.columns
    /\ IsFinite(table.rows["Total Current Liabilities"][i])
    /\ NeZero(table.rows["Total Current Liabilities"][i])

\* C16: in both reports the Quick Ratio of a period is
\* (current assets - inventory) / current liabilities, with 0 for the
\* inventory of every period when the table has no Inventory line item; the
\* ratio is written whether or not the Inventory line item is there.
C16_QuickRatioInventoryDefault ==
    /\ TeslaDone =>
          /\ \A i \in 1..NumPeriods :
                LET df == yf["quarterly_balance_sheet"]
                IN QuickRatioDefined(df, i) =>
                      CellIs(ws, QuarterlyCols[i], TeslaQuickRatioRow,
                             Number(QuickRatioOf(df, i)))
          /\ \A i \in 1..NumPeriods :
                LET df == yf["balance_sheet"]
                IN QuickRatioDefined(df, i) =>
                      CellIs(ws, AnnualCols[i], TeslaQuickRatioRow,
                             Number(QuickRatioOf(df, i)))
    /\ ExcelDone =>
          \A i \in 1..NumPeriods :
              LET df == yf["quarterly_balance_sheet"]
              IN QuickRatioDefined(df, i) =>
                    CellIs(ws, ExcelCols[i], ExcelQuickRatioRow,
                           Number(QuickRatioOf(df, i)))

\* A Tesla report with a Quick Ratio of 1 in its most recent quarter, from
\* a balance sheet without an Inventory line item.
C16_Witness ==
    /\ TeslaDone
    /\ QuickRatioDefined(yf["quarterly_balance_sheet"], 1)
    /\ "Inventory" \notin Index(yf["quarterly_balance_sheet"])
    /\ CellIs(ws, QuarterlyCols[1], TeslaQuickRatioRow, Number(Num(1)))

\* The table cut down to its three most recent periods.
FirstThree(table) ==
    IF IsDataFrame(table) /\ table.columns > NumPeriods
    THEN DataFrame(NumPeriods,
                   [k \in Index(table) |-> SubSeq(table.rows[k], 1, NumPeriods)])
    ELSE table

HasMoreThanThree(table) == IsDataFrame(table) /\ table.columns > NumPeriods

\* C17: of a table with more than 3 periods, the three value cells of a
\* row show the first three values of the line item in table order, the
\* scraper resolves the line item to those three values, and the whole
\* report is the report of the table cut down to its first three periods,
\* so that no later period shows in any cell.
C17_FirstThreePeriods ==
    LET df == yf["quarterly_balance_sheet"]
    IN /\ (TeslaDone /\ HasMoreThanThree(df)) =>
             /\ \A k \in 1..Len(balance_sheet_items) :
                   LET field_name == balance_sheet_items[k][2]
                   IN field_name \in Index(df) =>
                         \A i \in 1..NumPeriods :
                             CellIs(ws, QuarterlyCols[i], 8 + k - 1,
                                    Str(_format_currency(df.rows[field_name][i])))
             /\ ws = create_excel_report(
                         Fetched([t \in TableNames |-> FirstThree(yf[t])]), now)
       /\ (pc \in {"excel_fetched", "excel_done"} /\ HasMoreThanThree(df)) =>
             \A f \in 1..Len(balance_sheet_fields) :
                 balance_sheet_fields[f][2] \in Index(df) =>
                     data.balance_sheet_data.items[balance_sheet_fields[f][1]]
                         = SubSeq(df.rows[balance_sheet_fields[f][2]], 1, NumPeriods)

\* A Tesla report of a quarterly balance sheet of four periods 4, 3, 2, 1:
\* the Total Assets row shows $4, $3 and $2.
C17_Witness ==
    /\ TeslaDone
    /\ HasMoreThanThree(yf["quarterly_balance_sheet"])
    /\ "Total Assets" \in Index(yf["quarterly_balance_sheet"])
    /\ yf["quarterly_balance_sheet"].rows["Total Assets"][4] = Num(1)
    /\ CellIs(ws, "E", TeslaRowOf(balance_sheet_items, 8, "Total Assets"), Str("$4"))
    /\ CellIs(ws, "G", TeslaRowOf(balance_sheet_items, 8, "Total Assets"), Str("$3"))
    /\ CellIs(ws, "I", TeslaRowOf(balance_sheet_items, 8, "Total Assets"), Str("$2"))

\* The rows with column headers: create_excel_report rows 5, 6, 7, 32 and 57
\* (and the section titles of rows 31 and 56); create_report rows 5, 6 and 7.
TeslaHeaderRows == {5, 6, 7, 31, 32, 56, 57}

ExcelHeaderRows == {5, 6, 7}

\* The rows of the sheet w outside headers whose three cells in the columns
\* cols are all written with text, as the currency values are.
CurrencyRows(w, cols, headers) ==
    {row \in {a[2] : a \in DOMAIN w} \ headers :
        \A i \in 1..NumPeriods :
            Written(w, cols[i], row) /\ IsStr(w[<<cols[i], row>>].value)}

\* Both delta cells of the row hold a number.
BothDeltas(w, pct_cols, row) ==
    \A j \in 1..2 :
        Written(w, pct_cols[j], row) /\ IsNumber(w[<<pct_cols[j], row>>].value)

\* C18 (as stated): every row outside the headers that has currency values
\* in the three value cells of a column group has both delta cells of that
\* group populated.
C18_EveryValueRowHasDeltas ==
    /\ TeslaDone =>
          /\ \A row \in CurrencyRows(ws, QuarterlyCols, TeslaHeaderRows) :
                BothDeltas(ws, QuarterlyPctCols, row)
          /\ \A row \in CurrencyRows(ws, AnnualCols, TeslaHeaderRows) :
                BothDeltas(ws, AnnualPctCols, row)
    /\ ExcelDone =>
          \A row \in CurrencyRows(ws, ExcelCols, ExcelHeaderRows) :
              BothDeltas(ws, <<"G", "I">>, row)

\* C20: in one layout pass of either report no cell is assigned twice: the
\* rows of the sections, with their fixed start rows, do not overlap.
C20_EachCellWrittenOnce ==
    (pc \in {"tesla_done", "excel_done"}) =>
        \A a \in DOMAIN ws : ws[a].writes = 1

\* A Tesla report of complete tables: the first item rows of the three
\* sections and the two section titles between them are each written once.
C20_Witness ==
    /\ TeslaDone
    /\ yf = BaseYf
    /\ \A a \in {<<"E", 8>>, <<"A", 31>>, <<"K", 32>>, <<"E", 35>>,
                 <<"A", 56>>, <<"K", 57>>, <<"E", 63>>} :
          a \in DOMAIN ws /\ ws[a].writes = 1

-----------------------------------------------------------------------------
(* Specification of scheduled runs: FinancialReportAutomation.run_report   *)
(* (Colab_Q_A_fin_re.py) and FinancialReportAutomation.generate_report     *)
(* (financial_report_generator.py), run again and again by the schedule    *)
(* loop.  The loop runs one job after the other; the steps of two runs are *)
(* interleaved here, which includes every order the loop can produce.      *)

Runs == {1, 2}

\* How many times the calendar year changes while the schedule loop runs.
MaxNewYears == 1

RunYears == 2025..(2025 + MaxNewYears)

\* What the ticker delivers over time: complete tables, no quarterly
\* balance sheet, a quarterly income statement of two periods, and an annual
\* cash flow whose read raises.
RunInputs ==
    {BaseYf,
     [BaseYf EXCEPT !["quarterly_balance_sheet"] = None],
     [BaseYf EXCEPT !["quarterly_income_stmt"] = BaseTable("income_stmt", 2)],
     [BaseYf EXCEPT !["cash_flow"] = Raises]}

\* A plausible slip: one workbook object at module level, used by every run.
Mutant_Workbook(objects) == 1

\* openpyxl.Workbook(): an object that did not exist before.
Workbook(objects) == Len(objects) + 1

\* The worksheets of all workbooks after the writes `patch` to the sheet of
\* the workbook wb_; a workbook that did not exist starts with an empty sheet.
WithWrites(objects, wb_, patch) ==
    IF wb_ \in DOMAIN objects
    THEN [objects EXCEPT ![wb_] = Over(patch, @)]
    ELSE Append(objects, Over(patch, Blank))

\* The three dicts FinancialReportAutomation.generate_report fetches.
ScrapedData(source) ==
    [balance_sheet_data |-> get_balance_sheet_data(source),
     income_stmt_data |-> get_income_statement_data(source),
     cash_flow_data |-> get_cash_flow_data(source)]

InitRuns ==
    /\ yf \in RunInputs
    /\ tables = [r \in Runs |-> NoTables]
    /\ data = [r \in Runs |-> <<>>]
    /\ ws = <<>>
    /\ ret = [r \in Runs |-> "none"]
    /\ pc \in {[r \in Runs |-> "tesla_start"], [r \in Runs |-> "excel_start"]}
    /\ wb = [r \in Runs |-> 0]
    /\ current = NaN
    /\ previous = NaN
    /\ result = NaN
    /\ now = 2025

\* run_report up to generate_report's check of fetch_all_data: a new
\* TeslaFinancialReportGenerator, whose attributes are those of this run.
run_report_fetch_all_data(r) ==
    /\ pc[r] = "tesla_start"
    /\ tables' = [tables EXCEPT ![r] = Fetched(yf)]
    /\ IF FetchSucceeds(yf)
       THEN pc' = [pc EXCEPT ![r] = "tesla_fetched"] /\ ret' = ret
       ELSE pc' = [pc EXCEPT ![r] = "tesla_done"]
            /\ ret' = [ret EXCEPT ![r] = "False"]
    /\ UNCHANGED <<yf, data, ws, current, previous, result, now, wb>>

\* The rest of run_report: create_excel_report makes a workbook, writes the
\* report into its sheet and saves it.
run_report_create_excel_report(r) ==
    /\ pc[r] = "tesla_fetched"
    /\ wb' = [wb EXCEPT ![r] = Workbook(ws)]
    /\ ws' = WithWrites(ws, wb'[r], create_excel_report(tables[r], now))
    /\ ret' = [ret EXCEPT ![r] = "True"]
    /\ pc' = [pc EXCEPT ![r] = "tesla_done"]
    /\ UNCHANGED <<yf, tables, data, current, previous, result, now>>

\* FinancialReportAutomation.generate_report up to its check of the dicts.
automation_scraper_get_data(r) ==
    /\ pc[r] = "excel_start"
    /\ data' = [data EXCEPT ![r] = ScrapedData(yf)]
    /\ IF AllFetched(data'[r])
       THEN pc' = [pc EXCEPT ![r] = "excel_fetched"] /\ ret' = ret
       ELSE pc' = [pc EXCEPT ![r] = "excel_done"]
            /\ ret' = [ret EXCEPT ![r] = "False"]
    /\ UNCHANGED <<yf, tables, ws, current, previous, result, now, wb>>

\* The rest of FinancialReportAutomation.generate_report: a new
\* ExcelReportGenerator, whose __init__ makes the workbook; create_report
\* writes into its sheet.
automation_create_report(r) ==
    /\ pc[r] = "excel_fetched"
    /\ wb' = [wb EXCEPT ![r] = Workbook(ws)]
    /\ LET report == create_report(data[r].balance_sheet_data,
                                   data[r].income_stmt_data,
                                   data[r].cash_flow_data)
       IN /\ ws' = WithWrites(ws, wb'[r], report.ws)
          /\ ret' = [ret EXCEPT ![r] = IF report.raises THEN "IndexError" ELSE "True"]
    /\ pc' = [pc EXCEPT ![r] = "excel_done"]
    /\ UNCHANGED <<yf, tables, data, current, previous, result, now>>

\* Between two steps the company has published other statements.
SourceChanges ==
    /\ yf' \in RunInputs \ {yf}
    /\ UNCHANGED <<tables, data, ws, ret, pc, current, previous, result, now, wb>>

\* Between two steps the calendar year has changed.
NewYear ==
    /\ now < 2025 + MaxNewYears
    /\ now' = now + 1
    /\ UNCHANGED <<yf, tables, data, ws, ret, pc, current, previous, result, wb>>

NextRuns ==
    \/ \E r \in Runs : run_report_fetch_all_data(r)
    \/ \E r \in Runs : run_report_create_excel_report(r)
    \/ \E r \in Runs : automation_scraper_get_data(r)
    \/ \E r \in Runs : automation_create_report(r)
    \/ SourceChanges
    \/ NewYear

SpecRuns == InitRuns /\ [][NextRuns]_vars

\* Run r has made a Tesla report.
TeslaRunDone(r) == pc[r] = "tesla_done" /\ ret[r] = "True"

\* C15 (as stated): two runs of create_excel_report on identical statement
\* tables produce identical grids: the same cell addresses with the same
\* values and formats, header cells included.
C15_Idempotent ==
    \A r1 \in Runs, r2 \in Runs :
        (TeslaRunDone(r1) /\ TeslaRunDone(r2) /\ tables[r1] = tables[r2]) =>
            ws[wb[r1]] = ws[wb[r2]]

\* The Tesla report of each input in each year, and the Excel report of
\* each input, written into a new workbook.
TeslaRunReports ==
    [i \in RunInputs |-> [y \in RunYears |-> create_excel_report(Fetched(i), y)]]

ExcelRunReports ==
    [i \in RunInputs |->
        IF AllFetched(ScrapedData(i))
        THEN create_report(ScrapedData(i).balance_sheet_data,
                           ScrapedData(i).income_stmt_data,
                           ScrapedData(i).cash_flow_data).ws
        ELSE Blank]

-----------------------------------------------------------------------------
(* Further claims about the percentage change *)

\* C27: for present inputs, when previous is not 0 the percentage change
\* has the sign of current - previous, also for a negative previous; and it
\* is 0 exactly when current = previous or previous = 0.
C27_PctSign ==
    (PctReturned /\ PresentPct(current) /\ PresentPct(previous)) =>
        LET difference == current.n * previous.d - previous.n * current.d
        IN /\ result.d > 0
           /\ previous.n # 0 => SignInt(result.n) = SignInt(difference)
           /\ result.n = 0 <=> (difference = 0 \/ previous.n = 0)

\* From previous = -2 to current = 1 the change is positive: 3/2.
C27_Witness ==
    /\ pc = "excel_pct"
    /\ previous = Num(-2)
    /\ current = Num(1)
    /\ result = Frac(3, 2)

-----------------------------------------------------------------------------
(* Further claims about the Tesla report *)

CashFlowComponents ==
    {"Operating Cash Flow", "Investing Cash Flow", "Financing Cash Flow"}

\* The row of the sheet w labelled Net Cash Flow.
TeslaNetCashFlowRow(w) ==
    CHOOSE row \in {a[2] : a \in DOMAIN w} : CellIs(w, "B", row, Str("Net Cash Flow"))

\* Period i of a cash-flow component, 0 if the table does not have it.
ComponentOrZero(table, key, i) ==
    IF key \in Index(table) THEN table.rows[key][i] ELSE Num(0)

\* The periods for which the table gives a net cash flow: those of the
\* table, at most 3; all 3 if the table has none of the components.
NetCashFlowPeriods(table) ==
    IF CashFlowComponents \cap Index(table) = {} THEN 1..NumPeriods
    ELSE 1..MinInt(table.columns, NumPeriods)

\* The value cells of the Net Cash Flow row in cols hold, for a cash-flow
\* table that is there, the sum of the components with 0 for an absent one.
NetCashFlowShown(table, cols) ==
    IsDataFrame(table) =>
        \A i \in NetCashFlowPeriods(table) :
            CellIs(ws, cols[i], TeslaNetCashFlowRow(ws),
                   Str(_format_currency(
                       AddNum(AddNum(ComponentOrZero(table, "Operating Cash Flow", i),
                                     ComponentOrZero(table, "Investing Cash Flow", i)),
                              ComponentOrZero(table, "Financing Cash Flow", i)))))

\* C23: with a cash-flow table that lacks one of the three components,
\* _calculate_net_cash_flow takes 0 for that component in every period and
\* writes the Net Cash Flow cells as the sum with the other components;
\* stated for any set of absent components, quarterly and annual.
C23_NetCashFlowAbsentComponent ==
    TeslaDone =>
        /\ NetCashFlowShown(yf["quarterly_cash_flow"], QuarterlyCols)
        /\ NetCashFlowShown(yf["cash_flow"], AnnualCols)

\* A Tesla report of a quarterly cash flow without the financing component,
\* with 1 for each of the other two in the most recent quarter: $2.
C23_Witness ==
    /\ TeslaDone
    /\ IsDataFrame(yf["quarterly_cash_flow"])
    /\ yf["quarterly_cash_flow"].columns = NumPeriods
    /\ CashFlowComponents \cap Index(yf["quarterly_cash_flow"])
          = {"Operating Cash Flow", "Investing Cash Flow"}
    /\ yf["quarterly_cash_flow"].rows["Operating Cash Flow"][1] = Num(1)
    /\ yf["quarterly_cash_flow"].rows["Investing Cash Flow"][1] = Num(1)
    /\ CellIs(ws, "E", TeslaNetCashFlowRow(ws), Str("$2"))

-----------------------------------------------------------------------------
(* Further claims about both reports *)

\* A percentage change as the reports write it: a number with one of the
\* delta formats (ratios keep the General format, the gross margin has
\* '0.0%').
IsPctChange(cell) ==
    IsNumber(cell.value) /\ cell.number_format \in {"0.00%", "0.0"}

\* Below the headers of the sheet w, no cell of the delta columns holds
\* text and no cell of the value columns holds a percentage change.
ColumnPlanKept(w, value_cols, delta_cols, headers) ==
    \A a \in DOMAIN w :
        a[2] \notin headers =>
            /\ a[1] \in delta_cols => ~IsStr(w[a].value)
            /\ a[1] \in value_cols => ~IsPctChange(w[a])

\* C21 (as stated): in every row period values are written only to the
\* value columns and percentage changes only to the delta columns between
\* them: no currency value in a delta column, no percentage change in a
\* value column.
C21_ColumnPlan ==
    /\ TeslaDone =>
          ColumnPlanKept(ws, {"E", "G", "I", "K", "M", "O"},
                         {"F", "H", "L", "N"}, TeslaHeaderRows)
    /\ ExcelDone =>
          ColumnPlanKept(ws, {"F", "H", "J"}, {"G", "I"}, ExcelHeaderRows)

\* The cells of the sheet w in the columns cols.
CellsIn(w, cols) ==
    LET S == {a \in DOMAIN w : a[1] \in cols}
    IN [a \in S |-> w[a]]

QuarterlyAttrs == {"quarterly_balance_sheet", "quarterly_income", "quarterly_cashflow"}

AnnualAttrs == {"annual_balance_sheet", "annual_income", "annual_cashflow"}

\* The generator's tables with those of attrs replaced by the complete ones.
WithComplete(self, attrs) ==
    [attr \in DOMAIN self |->
        IF attr \in attrs THEN Fetched(BaseYf)[attr] ELSE self[attr]]

\* C22: whatever the quarterly tables are (absent, without an item, too
\* short for a value), the cells of the annual columns K to O are those of
\* the report of the same annual tables with complete quarterly tables; and
\* the same for the quarterly columns E to I against the annual tables.
C22_GranularitiesIndependent ==
    TeslaDone =>
        /\ CellsIn(ws, {"K", "L", "M", "N", "O"})
              = CellsIn(create_excel_report(WithComplete(tables, QuarterlyAttrs), now),
                        {"K", "L", "M", "N", "O"})
        /\ CellsIn(ws, {"E", "F", "G", "H", "I"})
              = CellsIn(create_excel_report(WithComplete(tables, AnnualAttrs), now),
                        {"E", "F", "G", "H", "I"})

\* A Tesla report without a quarterly balance sheet: the first asset row
\* has its annual value and no quarterly one.
C22_Witness ==
    /\ TeslaDone
    /\ yf["quarterly_balance_sheet"] = None
    /\ yf["balance_sheet"] = BaseYf["balance_sheet"]
    /\ CellIs(ws, "K", 8, Str("$3"))
    /\ ~Written(ws, "E", 8)

\* Of the cells of the row in the columns cols, all are written or none is.
AllOrNone(w, row, cols) ==
    \/ \A c \in cols : Written(w, c, row)
    \/ \A c \in cols : ~Written(w, c, row)

\* C24 (as stated): after _add_quarterly_data and _add_annual_data have
\* returned, normally or through their exception handler, a catalogued row
\* has either all three value cells and both delta cells of a column group
\* or none of them.
C24_RowPlacementAtomic ==
    TeslaDone =>
        \A k \in 1..Len(balance_sheet_items) :
            balance_sheet_items[k][2] # NoField =>
                /\ AllOrNone(ws, 8 + k - 1, {"E", "F", "G", "H", "I"})
                /\ AllOrNone(ws, 8 + k - 1, {"K", "L", "M", "N", "O"})

TeslaCurrentAssetsRow == TeslaRowOf(balance_sheet_items, 8, "Current Assets")

TeslaCurrentLiabilitiesRow ==
    TeslaRowOf(liability_items, 8 + Len(balance_sheet_items) + 2, "Current Liabilities")

\* The rows Current Assets and Current Liabilities show the three periods
\* of the table's line items of those names.
CurrentRowsDisplayed(w, table, cols) ==
    /\ IsDataFrame(table)
    /\ table.columns >= NumPeriods
    /\ {"Current Assets", "Current Liabilities"} \subseteq Index(table)
    /\ \A i \in 1..NumPeriods :
          /\ CellIs(w, cols[i], TeslaCurrentAssetsRow,
                    Str(_format_currency(table.rows["Current Assets"][i])))
          /\ CellIs(w, cols[i], TeslaCurrentLiabilitiesRow,
                    Str(_format_currency(table.rows["Current Liabilities"][i])))

\* The derived rows follow the displayed ones: Working Capital is the
\* displayed current assets minus the displayed current liabilities, and
\* the two ratios are there wherever the displayed liabilities are a number
\* other than 0.
DerivedFromDisplayed(w, table, cols) ==
    \A i \in 1..NumPeriods :
        LET ca == table.rows["Current Assets"][i]
            cl == table.rows["Current Liabilities"][i]
        IN /\ CellIs(w, cols[i], TeslaWorkingCapitalRow,
                     Str(_format_currency(SubNum(ca, cl))))
           /\ (IsFinite(cl) /\ NeZero(cl)) =>
                 /\ Written(w, cols[i], TeslaCurrentRatioRow)
                 /\ Written(w, cols[i], TeslaQuickRatioRow)

\* C25 (as stated): whenever the Current Assets and Current Liabilities
\* rows of a granularity are populated, the Working Capital, Current Ratio
\* and Quick Ratio rows of that granularity are populated too, and Working
\* Capital is the displayed Current Assets minus the displayed Current
\* Liabilities.
C25_DerivedRowsFollowDisplayed ==
    TeslaDone =>
        /\ CurrentRowsDisplayed(ws, yf["quarterly_balance_sheet"], QuarterlyCols)
              => DerivedFromDisplayed(ws, yf["quarterly_balance_sheet"], QuarterlyCols)
        /\ CurrentRowsDisplayed(ws, yf["balance_sheet"], AnnualCols)
              => DerivedFromDisplayed(ws, yf["balance_sheet"], AnnualCols)

-----------------------------------------------------------------------------
(* Specification of the schedule loop: schedule_daily_report and           *)
(* schedule_weekly_report of Colab_Q_A_fin_re.py (job run_report) and      *)
(* schedule_daily_report of financial_report_generator.py (job             *)
(* generate_report):  while True: schedule.run_pending(); time.sleep(60)   *)

\* A plausible slip: a failed fetch raised to the loop instead of returned.
Mutant_AfterJob(program, returned) ==
    IF returned \in {"IndexError", "False"} THEN "crashed"
    ELSE IF program = "tesla" THEN "tesla_polling" ELSE "excel_polling"

\* schedule.run_pending() after the job: an exception of the job leaves the
\* while loop; any return value is dropped and the loop sleeps and polls.
AfterJob(program, returned) ==
    IF returned = "IndexError" THEN "crashed"
    ELSE IF program = "tesla" THEN "tesla_polling" ELSE "excel_polling"

InitSchedule ==
    /\ yf \in RunInputs
    /\ tables = NoTables
    /\ data = <<>>
    /\ ws = Blank
    /\ ret = "none"
    /\ pc \in {"tesla_polling", "excel_polling"}
    /\ current = NaN
    /\ previous = NaN
    /\ result = NaN
    /\ now = 2025
    /\ wb = <<>>

\* The job is due: run_report constructs a TeslaFinancialReportGenerator,
\* whose tables are all None.
schedule_run_report ==
    /\ pc = "tesla_polling"
    /\ tables' = NoTables
    /\ ret' = "none"
    /\ pc' = "tesla_start"
    /\ UNCHANGED <<yf, data, ws, current, previous, result, now, wb>>

\* generate_report up to the check of fetch_all_data: on failure run_report
\* logs and returns None.
schedule_fetch_all_data ==
    /\ pc = "tesla_start"
    /\ tables' = Fetched(yf)
    /\ IF FetchSucceeds(yf)
       THEN pc' = "tesla_fetched" /\ ret' = ret
       ELSE pc' = AfterJob("tesla", "False") /\ ret' = "False"
    /\ UNCHANGED <<yf, data, ws, current, previous, result, now, wb>>

\* The rest of the job: the workbook is built and saved.
schedule_create_excel_report ==
    /\ pc = "tesla_fetched"
    /\ ws' = create_excel_report(tables, now)
    /\ ret' = "True"
    /\ pc' = AfterJob("tesla", "True")
    /\ UNCHANGED <<yf, tables, data, current, previous, result, now, wb>>

\* The job is due: FinancialReportAutomation.generate_report starts.
schedule_generate_report ==
    /\ pc = "excel_polling"
    /\ data' = <<>>
    /\ ret' = "none"
    /\ pc' = "excel_start"
    /\ UNCHANGED <<yf, tables, ws, current, previous, result, now, wb>>

\* generate_report up to its check of the three dicts.
schedule_scraper_get_data ==
    /\ pc = "excel_start"
    /\ data' = ScrapedData(yf)
    /\ IF AllFetched(data')
       THEN pc' = "excel_fetched" /\ ret' = ret
       ELSE pc' = AfterJob("excel", "False") /\ ret' = "False"
    /\ UNCHANGED <<yf, tables, ws, current, previous, result, now, wb>>

\* The rest of the job: a new ExcelReportGenerator, create_report and
\* save_report; an IndexError of create_report is not caught anywhere.
schedule_create_report ==
    /\ pc = "excel_fetched"
    /\ LET report == create_report(data.balance_sheet_data,
                                   data.income_stmt_data, data.cash_flow_data)
       IN /\ ws' = report.ws
          /\ ret' = IF report.raises THEN "IndexError" ELSE "True"
          /\ pc' = AfterJob("excel", ret')
    /\ UNCHANGED <<yf, tables, data, current, previous, result, now, wb>>

\* One step of the loop's thread.
LoopStep ==
    \/ schedule_run_report
    \/ schedule_fetch_all_data
    \/ schedule_create_excel_report
    \/ schedule_generate_report
    \/ schedule_scraper_get_data
    \/ schedule_create_report

NextSchedule == LoopStep \/ SourceChanges

LoopPositions ==
    {"tesla_polling", "tesla_start", "tesla_fetched",
     "excel_polling", "excel_start", "excel_fetched", "crashed"}

\* The loop's thread takes a step: every LoopStep moves pc, nothing else
\* does, and a LoopStep is possible at every position but "crashed".
LoopMoves == pc # "crashed" /\ pc' \in LoopPositions

\* The loop's thread never blocks: the job becomes due again and again, and
\* a job that has started runs to its end.  Nothing is assumed about the
\* ticker.
SpecSchedule == InitSchedule /\ [][NextSchedule]_vars /\ WF_pc(LoopMoves)

\* C26: a run whose fetch fails does not stop the loop: the loop leaves the
\* while only with an exception of create_report, never with a failed
\* fetch; and after a failed fetch the loop polls, and the next firing
\* starts a run with a fresh generator.
C26_FailedFetchKeepsLoop ==
    /\ [](pc = "crashed" => ret = "IndexError")
    /\ (pc = "tesla_polling" /\ ret = "False")
          ~> (pc = "tesla_start" /\ tables = NoTables /\ ret = "none")
    /\ (pc = "excel_polling" /\ ret = "False")
          ~> (pc = "excel_start" /\ data = <<>> /\ ret = "none")

\* The Tesla loop polls after a run whose last read raised: five tables
\* had been read, no workbook was made.
C26_Witness ==
    /\ pc = "tesla_polling"
    /\ ret = "False"
    /\ tables.quarterly_balance_sheet # None
    /\ tables.annual_cashflow = None

=============================================================================
